---- MODULE Spec2Model ----
(***************************************************************************)
(* Model of the synthesiser voice (MySynthVoice), its LFO (MyLfo), its     *)
(* amplifier (MyAmp) and its noise generator (MyNoiseGenerator), and of    *)
(* the two delay effects of the processor (MyDelay, MyPingPongDelay) and   *)
(* the bypass of its reverb (MyReverb).                                    *)
(*                                                                         *)
(* Floating-point quantities are fixed-point integers.  Each quantity has  *)
(* its own unit, named <X>One, the integer that stands for 1.0:            *)
(*   envelope values    EnvOne      times (seconds)     TimeOne            *)
(*   LFO phase          PhaseOne    LFO wave shapes     WaveOne            *)
(*   LFO depth          DepthOne    LFO sample          LfoOne             *)
(*   note velocity      VelOne      amp volume          VolOne             *)
(* The divisions the chosen parameter values produce are exact.  The       *)
(* envelope of juce::ADSR is a float that is added to and subtracted from  *)
(* once per sample: its sums are rounded as float sums are, to the nearest *)
(* value with MantissaBits significant bits.                               *)
(***************************************************************************)
EXTENDS Integers, Sequences, FiniteSets, TLC

VARIABLES
    params,               \* MyParameters: the user-editable parameter values
    playing, ending,      \* MySynthVoice flags
    currentlyPlayingNote, \* juce::SynthesiserVoice: the note, NoNote when cleared
    osc1, osc2,           \* MyOscillator (two instances)
    noiseGen,             \* MyNoiseGenerator
    lfo,                  \* MyLfo
    filter,               \* MyFilter
    amp,                  \* MyAmp
    outputBuffer,         \* the juce::AudioSampleBuffer the voice rendered into
    myNormalDelay,        \* MyDelay
    myPingPongDelay,      \* MyPingPongDelay
    myReverb,             \* MyReverb
    lastOp                \* the last operation: its arguments and what it did

vars == <<params, playing, ending, currentlyPlayingNote, osc1, osc2, noiseGen,
          lfo, filter, amp, outputBuffer, myNormalDelay, myPingPongDelay, myReverb,
          lastOp>>

voiceVars == <<playing, ending, currentlyPlayingNote, osc1, osc2, noiseGen,
               lfo, filter, amp>>

delayVars == <<myNormalDelay, myPingPongDelay, myReverb>>

-----------------------------------------------------------------------------
(* Bounds of the model *)

\* longest block (in samples) handed to renderNextBlock
MaxBlock == 2
\* significant bits of a float (24 in the build)
MantissaBits == 3
\* the count of apply calls after stopNote stops here
MaxApplies == 4
\* the samples the delays process in the on state between two prepareToPlay
MaxSamples == 3
\* the samples they process in the on state when the write index is to wrap
MaxRangeSamples == 5
\* the samples they process when the delay distance is ramped
MaxRampSamples == 2

-----------------------------------------------------------------------------
(* Fixed-point units and program constants *)

EnvOne == 64
TimeOne == 100
PhaseOne == 4
WaveOne == 2
DepthOne == 2
LfoOne == WaveOne * DepthOne
VelOne == 2
VolOne == 2
\* the host sample rate in Hz, returned by getSampleRate()
SampleRate == 4
\* juce::ADSR starts with sampleRate 44100; the host runs at that same rate
ADSRDefaultSampleRate == SampleRate
\* juce::SynthesiserVoice::currentlyPlayingNote when no note is playing
NoNote == 0 - 1
\* period of the tick counters that stand for oscillator and filter phase
OscPeriod == 2

Abs(x) == IF x < 0 THEN 0 - x ELSE x
Max(a, b) == IF a > b THEN a ELSE b
Min(a, b) == IF a < b THEN a ELSE b

-----------------------------------------------------------------------------
(* float arithmetic on envelope values (units of 1/EnvOne) *)

\* the gap between neighbouring floats at magnitude x: the binade of x
\* divided into 2 ^ (MantissaBits - 1) steps, and never below the unit
FloatUlp(x) ==
    CHOOSE ulp \in {2 ^ k : k \in 0..20} :
        \/ ulp = 1 /\ x < 2 ^ MantissaBits
        \/ ulp * 2 ^ (MantissaBits - 1) <= x /\ x < ulp * 2 ^ MantissaBits

\* x rounded to the nearest multiple of ulp, a tie going to the even multiple
RoundToMultiple(x, ulp) ==
    LET q == x \div ulp
        r == x % ulp
    IN  IF 2 * r < ulp \/ (2 * r = ulp /\ q % 2 = 0) THEN q * ulp ELSE (q + 1) * ulp

\* the nearest float at or above zero to the magnitude x
FloatRoundMagnitude(x) ==
    CHOOSE rounded \in {RoundToMultiple(x, ulp) : ulp \in {FloatUlp(x)}} : TRUE

\* x rounded to the nearest float, a tie going to the even mantissa
FloatRound(x) ==
    CHOOSE rounded \in
        {IF v < 0 THEN 0 - FloatRoundMagnitude(0 - v) ELSE FloatRoundMagnitude(v) :
            v \in {x}} : TRUE

-----------------------------------------------------------------------------
(* juce::ADSR, the envelope used by MyAmp and MyNoiseGenerator *)

ADSRReset(a) == [a EXCEPT !.envelopeVal = 0, !.state = "idle"]

ADSRGoToNextState(a) ==
    CASE a.state = "attack" ->
            [a EXCEPT !.state = IF a.decayRate > 0 THEN "decay" ELSE "sustain"]
      [] a.state = "decay" -> [a EXCEPT !.state = "sustain"]
      [] a.state = "release" -> ADSRReset(a)
      [] OTHER -> a

\* distance / (timeInSeconds * sr), or -1 for a time of zero
ADSRGetRate(distance, timeInSeconds, sr) ==
    IF timeInSeconds > 0
    THEN FloatRound(((distance * TimeOne) \div timeInSeconds) \div sr)
    ELSE 0 - 1

\* the envelope b, with its rates just recalculated, moves on if the rate of
\* its state is not positive
ADSRCheckCurrentState(b) ==
    IF \/ (b.state = "attack" /\ b.attackRate <= 0)
       \/ (b.state = "decay" /\ (b.decayRate <= 0 \/ b.envelopeVal <= b.sustain))
       \/ (b.state = "release" /\ b.releaseRate <= 0)
    THEN ADSRGoToNextState(b)
    ELSE b

ADSRRecalculateRates(a) ==
    CHOOSE next \in
        {ADSRCheckCurrentState(b) :
            b \in {[a EXCEPT
                      !.attackRate = ADSRGetRate(EnvOne, a.attack, a.sampleRate),
                      !.decayRate = ADSRGetRate(EnvOne - a.sustain, a.decay, a.sampleRate),
                      !.releaseRate = ADSRGetRate(a.sustain, a.release, a.sampleRate)]}} :
        TRUE

ADSRSetSampleRate(a, sr) == [a EXCEPT !.sampleRate = sr]

ADSRSetParameters(a, attack, decay, sustain, release) ==
    ADSRRecalculateRates([a EXCEPT !.attack = attack, !.decay = decay,
                                   !.sustain = sustain, !.release = release])

\* a default-constructed juce::ADSR: attack 0.1 s, decay 0.1 s, sustain 1, release 0.1 s
ADSRNew ==
    ADSRRecalculateRates(
        [state |-> "idle", envelopeVal |-> 0,
         attack |-> TimeOne \div 10, decay |-> TimeOne \div 10,
         sustain |-> EnvOne, release |-> TimeOne \div 10,
         sampleRate |-> ADSRDefaultSampleRate,
         attackRate |-> 0, decayRate |-> 0, releaseRate |-> 0])

ADSRNoteOn(a) ==
    IF a.attackRate > 0 THEN [a EXCEPT !.state = "attack"]
    ELSE IF a.decayRate > 0 THEN [a EXCEPT !.envelopeVal = EnvOne, !.state = "decay"]
    ELSE [a EXCEPT !.envelopeVal = a.sustain, !.state = "sustain"]

ADSRNoteOff(a) ==
    IF a.state # "idle"
    THEN IF a.release > 0
         THEN [a EXCEPT !.releaseRate = ADSRGetRate(a.envelopeVal, a.release, a.sampleRate),
                        !.state = "release"]
         ELSE ADSRReset(a)
    ELSE a

\* the envelope after getNextSample(); the value returned is its envelopeVal
ADSRGetNextSample(a) ==
    CASE a.state = "idle" -> a
      [] a.state = "attack" ->
            LET v == FloatRound(a.envelopeVal + a.attackRate)
            IN  IF v >= EnvOne
                THEN ADSRGoToNextState([a EXCEPT !.envelopeVal = EnvOne])
                ELSE [a EXCEPT !.envelopeVal = v]
      [] a.state = "decay" ->
            LET v == FloatRound(a.envelopeVal - a.decayRate)
            IN  IF v <= a.sustain
                THEN ADSRGoToNextState([a EXCEPT !.envelopeVal = a.sustain])
                ELSE [a EXCEPT !.envelopeVal = v]
      [] a.state = "sustain" -> [a EXCEPT !.envelopeVal = a.sustain]
      [] a.state = "release" ->
            LET v == FloatRound(a.envelopeVal - a.releaseRate)
            IN  IF v <= 0
                THEN ADSRGoToNextState([a EXCEPT !.envelopeVal = v])
                ELSE [a EXCEPT !.envelopeVal = v]

-----------------------------------------------------------------------------
(* MyLfo *)

LfoNew == [phase |-> 0, phaseDelta |-> 0]

\* phaseDelta = frequency / sampleRate
LfoUpdatePhaseDelta(l, frequency, sampleRate) ==
    [l EXCEPT !.phaseDelta = (frequency * PhaseOne) \div sampleRate]

LfoUpdateParams(l, p, sampleRate) == LfoUpdatePhaseDelta(l, p.lfoFrequency, sampleRate)

\* phase += phaseDelta; if (phase > 1) phase -= 1
LfoGetNextPhase(l) ==
    LET ph == l.phase + l.phaseDelta
    IN  [l EXCEPT !.phase = IF ph > PhaseOne THEN ph - PhaseOne ELSE ph]

\* sin (2 pi phase), exact on the quarter turns the phase grid holds
LfoSine(phase) ==
    CASE (phase * 4) \div PhaseOne = 1 -> WaveOne
      [] (phase * 4) \div PhaseOne = 3 -> 0 - WaveOne
      [] OTHER -> 0

LfoTriangle(phase) == (Abs(2 * phase - PhaseOne) * 2 * WaveOne) \div PhaseOne - WaveOne

LfoSquare(phase) == IF 2 * phase < PhaseOne THEN 0 - WaveOne ELSE WaveOne

LfoSaw(phase) == (phase * 2 * WaveOne) \div PhaseOne - WaveOne

LfoInvertedSaw(phase) == 0 - LfoSaw(phase)

\* the wave shape selected by lfoType at the given phase
LfoShape(lfoType, phase) ==
    CASE lfoType = 0 -> LfoSine(phase)
      [] lfoType = 1 -> LfoTriangle(phase)
      [] lfoType = 2 -> LfoSquare(phase)
      [] lfoType = 3 -> LfoSaw(phase)
      [] lfoType = 4 -> LfoInvertedSaw(phase)
      [] OTHER -> LfoTriangle(phase)

\* getNextSample: the LFO after the call, and the sample it returns
LfoGetNextSample(l, p) ==
    LET l2 == LfoGetNextPhase(l)
    IN  [lfo |-> l2, sample |-> p.lfoDepth * LfoShape(p.lfoType, l2.phase)]

LfoAppliesTo1(p, index) == p.lfoOn /\ p.lfoAppliesTo = index

LfoAppliesTo2(p, index1, index2) ==
    p.lfoOn /\ (p.lfoAppliesTo = index1 \/ p.lfoAppliesTo = index2)

\* variants of two queries with a wrong index: the oscillator 1 cents query
\* answering to "both frequencies", the filter Q query to "filter frequency"
AppliesToOsc1CentsWrongPair(p) == LfoAppliesTo2(p, 1, 4)
AppliesToFilterQWrongIndex(p) == LfoAppliesTo1(p, 6)

AppliesToOsc1Frequency(p) == LfoAppliesTo2(p, 0, 4)
AppliesToOsc1Cents(p) == LfoAppliesTo2(p, 1, 5)
AppliesToOsc2Frequency(p) == LfoAppliesTo2(p, 2, 4)
AppliesToOsc2Cents(p) == LfoAppliesTo2(p, 3, 5)
AppliesToFilterFrequency(p) == LfoAppliesTo1(p, 6)
AppliesToFilterQ(p) == LfoAppliesTo1(p, 7)
AppliesToAmpVolume(p) == LfoAppliesTo1(p, 8)
AppliesToAmpDistortion(p) == LfoAppliesTo1(p, 9)

-----------------------------------------------------------------------------
(* MyAmp *)

\* velocityGain is not set by the constructor; it is written by startNote
\* before apply reads it
AmpNew == [ampEnv |-> ADSRNew, velocityGain |-> 0, envVal |-> 0]

AmpStartNote(a, velocity) ==
    [a EXCEPT !.ampEnv = ADSRNoteOn(ADSRReset(a.ampEnv)), !.velocityGain = velocity]

AmpStopNote(a) == [a EXCEPT !.ampEnv = ADSRNoteOff(a.ampEnv)]

\* envVal < 0.000001f
AmpIsClosed(a) == a.envVal * 1000000 < EnvOne

AmpUpdateParams(a, p, sampleRate) ==
    [a EXCEPT !.ampEnv = ADSRSetParameters(ADSRSetSampleRate(a.ampEnv, sampleRate),
                                           p.ampEnvAttack, p.ampEnvDecay,
                                           p.ampEnvSustain, p.ampEnvRelease)]

\* effective distortion gain, in units of 1/LfoOne
GetAmpDist(p, applyLfo, lfoSample) ==
    IF applyLfo
    THEN Max(0, p.ampDistGain * LfoOne + lfoSample * p.ampDistGain)
    ELSE p.ampDistGain * LfoOne

\* a variant of getAmpVolume without the clamp
GetAmpVolumeUnclamped(p, applyLfo, lfoSample) ==
    IF applyLfo
    THEN p.ampVolume * LfoOne + lfoSample * p.ampVolume
    ELSE p.ampVolume * LfoOne

\* effective volume, in units of 1/(VolOne * LfoOne)
GetAmpVolume(p, applyLfo, lfoSample) ==
    IF applyLfo
    THEN Max(0, Min(VolOne * LfoOne, p.ampVolume * LfoOne + lfoSample * p.ampVolume))
    ELSE p.ampVolume * LfoOne

\* the unit of a distorted sample, and of the output of apply
DistOne == VelOne * EnvOne * LfoOne
OutOne == VolOne * LfoOne * DistOne

\* tanh on 0 <= x, by linear interpolation between tanh(0), tanh(1/2),
\* tanh(1), tanh(2) and tanh(4); x and the result are in units of 1/DistOne
TanhPos(x) ==
    LET h  == DistOne \div 2
        yh == h - h \div 13
        y1 == yh + ((DistOne - h) * 3) \div 5
        y2 == y1 + DistOne \div 5
    IN  IF x <= h THEN x - x \div 13
        ELSE IF x <= DistOne THEN yh + ((x - h) * 3) \div 5
        ELSE IF x <= 2 * DistOne THEN y1 + (x - DistOne) \div 5
        ELSE y2 + Min(x - 2 * DistOne, 2 * DistOne) \div 56

Tanh(x) == IF x < 0 THEN 0 - TanhPos(0 - x) ELSE TanhPos(x)

\* a variant of apply that distorts whether or not ampDistOn is set
AmpApplyAlwaysDistorts(a, p, sample, applyLfoToAmpVolume, applyLfoToAmpDist, lfoSample) ==
    LET env == ADSRGetNextSample(a.ampEnv)
        envVal == env.envelopeVal
        envSample == a.velocityGain * (envVal * sample)
        distSample == Tanh(GetAmpDist(p, applyLfoToAmpDist, lfoSample) * envSample)
    IN  [amp |-> [a EXCEPT !.ampEnv = env, !.envVal = envVal],
         out |-> GetAmpVolume(p, applyLfoToAmpVolume, lfoSample) * distSample]

\* apply: the amp after the call and the sample it returns (units of 1/OutOne)
AmpApply(a, p, sample, applyLfoToAmpVolume, applyLfoToAmpDist, lfoSample) ==
    LET env == ADSRGetNextSample(a.ampEnv)
        envVal == env.envelopeVal
        envSample == a.velocityGain * (envVal * sample)
        distSample == IF p.ampDistOn
                      THEN Tanh(GetAmpDist(p, applyLfoToAmpDist, lfoSample) * envSample)
                      ELSE envSample * LfoOne
    IN  [amp |-> [a EXCEPT !.ampEnv = env, !.envVal = envVal],
         out |-> GetAmpVolume(p, applyLfoToAmpVolume, lfoSample) * distSample]

-----------------------------------------------------------------------------
(* MyNoiseGenerator *)

\* juce::Random keeps a 48-bit linear congruential seed; the model keeps its
\* low RandBits bits and returns the top three of them as nextFloat
RandModulus == 16
RandOne == 8

RandomNext(seed) == (seed * 13 + 11) % RandModulus

RandomFloat(seed) == (seed * RandOne) \div RandModulus

\* juce::IIRFilter reduced to one state value
IIRNew == [cutoff |-> 0, active |-> FALSE, v1 |-> 0]
IIRReset(f) == [f EXCEPT !.v1 = 0]
IIRSetCoefficients(f, cutoff) == [f EXCEPT !.cutoff = cutoff, !.active = TRUE]
IIRProcess(f, in) == [f EXCEPT !.v1 = (in + f.v1) \div 2]

\* the constructor fixes attack, sustain and release of noiseEnvParams
NoiseNew(seed) ==
    [random |-> seed, noiseFilter |-> IIRNew, noiseEnv |-> ADSRNew,
     noiseEnvParams |-> [attack |-> TimeOne \div 100, decay |-> TimeOne \div 10,
                         sustain |-> 0, release |-> TimeOne \div 100]]

NoiseStartNote(n) ==
    [n EXCEPT !.noiseFilter = IIRReset(n.noiseFilter),
              !.noiseEnv = ADSRNoteOn(ADSRReset(n.noiseEnv))]

NoiseStopNote(n) == [n EXCEPT !.noiseEnv = ADSRNoteOff(n.noiseEnv)]

\* a variant of updateParams that hands noiseDuration on as the decay even at
\* its maximum
NoiseUpdateParamsNoSentinel(n, p, sampleRate) ==
    LET noiseFilterFreq == (p.noiseFilter * 5000) \div 2 + 20
        ep == [n.noiseEnvParams EXCEPT !.decay = p.noiseDuration]
    IN  [n EXCEPT !.noiseFilter = IIRSetCoefficients(n.noiseFilter, noiseFilterFreq),
                  !.noiseEnvParams = ep,
                  !.noiseEnv = ADSRSetParameters(n.noiseEnv, ep.attack, ep.decay,
                                                 ep.sustain, ep.release)]

\* noiseDuration at its maximum of 100 s becomes a decay of 10000 s
NoiseUpdateParams(n, p, sampleRate) ==
    LET noiseFilterFreq == (p.noiseFilter * 5000) \div 2 + 20
        decay == IF p.noiseDuration = 100 * TimeOne
                 THEN 10000 * TimeOne ELSE p.noiseDuration
        ep == [n.noiseEnvParams EXCEPT !.decay = decay]
    IN  [n EXCEPT !.noiseFilter = IIRSetCoefficients(n.noiseFilter, noiseFilterFreq),
                  !.noiseEnvParams = ep,
                  !.noiseEnv = ADSRSetParameters(n.noiseEnv, ep.attack, ep.decay,
                                                 ep.sustain, ep.release)]

\* a variant of getNextSample that advances the generator before it tests noiseOn
NoiseGetNextSampleAdvancing(n, p) ==
    LET seed == RandomNext(n.random)
        noiseSample == RandomFloat(seed) * 2 - RandOne
        filt == IIRProcess(n.noiseFilter, noiseSample)
        env == ADSRGetNextSample(n.noiseEnv)
    IN  [noiseGen |-> [n EXCEPT !.random = seed, !.noiseFilter = filt, !.noiseEnv = env],
         sample |-> IF p.noiseOn THEN p.noiseGain * (env.envelopeVal * filt.v1) ELSE 0]

\* getNextSample: the generator after the call and the sample it returns
NoiseGetNextSample(n, p) ==
    IF ~ p.noiseOn
    THEN [noiseGen |-> n, sample |-> 0]
    ELSE LET seed == RandomNext(n.random)
             noiseSample == RandomFloat(seed) * 2 - RandOne
             filt == IIRProcess(n.noiseFilter, noiseSample)
             env == ADSRGetNextSample(n.noiseEnv)
         IN  [noiseGen |-> [n EXCEPT !.random = seed, !.noiseFilter = filt,
                                     !.noiseEnv = env],
              sample |-> p.noiseGain * (env.envelopeVal * filt.v1)]

-----------------------------------------------------------------------------
(* MyDelay and MyPingPongDelay *)

\* levels (wet, dry, feedback, depth) are in units of 1/GainOne, a delay
\* distance in units of 1/FracOne sample, a frequency in units of 1/HertzOne Hz
GainOne == 2
FracOne == TimeOne \div SampleRate
HertzOne == 1000
\* what a float division by zero returns
FloatInfinity == 2 ^ 30

\* the C++ remainder: its sign is the sign of the dividend
CppMod(a, b) == IF a >= 0 THEN a % b ELSE 0 - ((0 - a) % b)

\* juce::SmoothedValue<float> (linear): reset, setCurrentAndTargetValue,
\* setTargetValue and getNextValue
SmoothedNew ==
    [currentValue |-> 0, target |-> 0, countdown |-> 0, step |-> 0, stepsToTarget |-> 0]

SmoothedSetCurrentAndTargetValue(s, newValue) ==
    [s EXCEPT !.currentValue = newValue, !.target = newValue, !.countdown = 0]

SmoothedReset(s, sampleRate, rampLength) ==
    SmoothedSetCurrentAndTargetValue(
        [s EXCEPT !.stepsToTarget = (rampLength * sampleRate) \div TimeOne], s.target)

SmoothedSetTargetValue(s, newValue) ==
    IF newValue = s.target THEN s
    ELSE IF s.stepsToTarget <= 0 THEN SmoothedSetCurrentAndTargetValue(s, newValue)
    ELSE [s EXCEPT !.target = newValue, !.countdown = s.stepsToTarget,
                   !.step = IF newValue = FloatInfinity THEN FloatInfinity
                            ELSE (newValue - s.currentValue) \div s.stepsToTarget]

SmoothedGetNextValue(s) ==
    IF s.countdown <= 0 THEN [s EXCEPT !.currentValue = s.target]
    ELSE IF s.countdown = 1 THEN [s EXCEPT !.countdown = 0, !.currentValue = s.target]
    ELSE [s EXCEPT !.countdown = s.countdown - 1,
                   !.currentValue = IF s.step = FloatInfinity THEN FloatInfinity
                                    ELSE s.currentValue + s.step]

\* the ramp length both delays pass to reset: 0.1 s
DelayRampLength == TimeOne \div 10

\* delayTime * sampleRate, in units of 1/FracOne sample
DelayTimeInSamples(p, sampleRate) == (p.delayTime * sampleRate * FracOne) \div TimeOne

\* the fractional read both classes make (getInterpolatedDelayedSample, and
\* the first half of applyDelay): the two indices it reads and the value
InterpolatedRead(lineBuffer, currentIndex, bufferSize, exactDelayInSamples) ==
    LET delayInSamplesInt == exactDelayInSamples \div FracOne
        delayInSamplesDecimal == exactDelayInSamples % FracOne
        rightIndex == CppMod((currentIndex - delayInSamplesInt) + bufferSize, bufferSize)
        leftIndex == CppMod(rightIndex - 1 + bufferSize, bufferSize)
    IN  [leftIndex |-> leftIndex, rightIndex |-> rightIndex,
         sample |-> ((FracOne - delayInSamplesDecimal) * lineBuffer[leftIndex + 1]
                     + delayInSamplesDecimal * lineBuffer[rightIndex + 1]) \div FracOne]

\* a delay object before prepareToPlay: the buffers are null pointers (<<>>);
\* sampleRate, bufferSize, currentIndex and emptyBuffers have no initializer,
\* so the values written here are never read while the buffers are null
MyDelayNew ==
    [leftBuffer |-> <<>>, rightBuffer |-> <<>>, sampleRate |-> 0,
     smoothDelaySamples |-> SmoothedNew,
     bufferSize |-> 0, currentIndex |-> 0, emptyBuffers |-> FALSE]

\* a variant of clearBuffers that leaves the write index where it was
MyDelayClearBuffersKeepsIndex(d) ==
    [d EXCEPT !.leftBuffer = [i \in 1..d.bufferSize |-> 0],
              !.rightBuffer = [i \in 1..d.bufferSize |-> 0],
              !.emptyBuffers = TRUE]

MyDelayClearBuffers(d) ==
    [d EXCEPT !.leftBuffer = [i \in 1..d.bufferSize |-> 0],
              !.rightBuffer = [i \in 1..d.bufferSize |-> 0],
              !.currentIndex = 0, !.emptyBuffers = TRUE]

MyDelayResetBuffers(d) ==
    MyDelayClearBuffers([d EXCEPT !.bufferSize = 2 * d.sampleRate + 1])

MyDelayPrepareToPlay(d, sampleRate) ==
    LET reset == MyDelayResetBuffers([d EXCEPT !.sampleRate = sampleRate])
    IN  [reset EXCEPT !.smoothDelaySamples =
            SmoothedSetCurrentAndTargetValue(
                SmoothedReset(reset.smoothDelaySamples, sampleRate, DelayRampLength),
                (sampleRate * FracOne) \div 2)]

MyDelayUpdateParams(d, p) ==
    [d EXCEPT !.smoothDelaySamples =
        SmoothedSetTargetValue(d.smoothDelaySamples, DelayTimeInSamples(p, d.sampleRate))]

\* a variant of incrementCurrentIndex that advances by two
MyDelayIncrementCurrentIndexByTwo(d) ==
    [d EXCEPT !.currentIndex = CppMod(d.currentIndex + 2, d.bufferSize)]

MyDelayIncrementCurrentIndex(d) ==
    [d EXCEPT !.currentIndex = CppMod(d.currentIndex + 1, d.bufferSize)]

\* applyDelay on one channel: the sample it leaves in the channel and the
\* value it writes into the line at currentIndex
MyDelayApplyDelay(d, p, originalSample, lineBuffer, delaySamples) ==
    LET delayedSample == InterpolatedRead(lineBuffer, d.currentIndex, d.bufferSize,
                                          delaySamples).sample
    IN  [newSample |-> (p.delayDryLevel * originalSample
                        + p.delayWetLevel * delayedSample) \div GainOne,
         written |-> originalSample + (p.delayFeedback * delayedSample) \div GainOne]

\* one iteration of the sample loop of MyDelay::apply; st holds the delay
\* object and the audio buffer
MyDelaySample(st, p, i, numChannels) ==
    LET updated == MyDelayUpdateParams(st.delay, p)
        smoothed == SmoothedGetNextValue(updated.smoothDelaySamples)
        d == [updated EXCEPT !.smoothDelaySamples = smoothed]
        delaySamples == smoothed.currentValue
        left == MyDelayApplyDelay(d, p, st.buffer[1][i + 1], d.leftBuffer, delaySamples)
        right == MyDelayApplyDelay(d, p, st.buffer[2][i + 1], d.rightBuffer, delaySamples)
        rightChannelAvailable == numChannels > 1
    IN  [delay |-> MyDelayIncrementCurrentIndex(
                       [d EXCEPT !.leftBuffer[d.currentIndex + 1] = left.written,
                                 !.rightBuffer[d.currentIndex + 1] =
                                     IF rightChannelAvailable THEN right.written ELSE @]),
         buffer |-> IF rightChannelAvailable
                    THEN [st.buffer EXCEPT ![1][i + 1] = left.newSample,
                                           ![2][i + 1] = right.newSample]
                    ELSE [st.buffer EXCEPT ![1][i + 1] = left.newSample]]

RECURSIVE MyDelayLoop(_, _, _, _, _)
MyDelayLoop(st, p, i, numSamples, numChannels) ==
    IF i < numSamples
    THEN MyDelayLoop(MyDelaySample(st, p, i, numChannels), p, i + 1, numSamples,
                     numChannels)
    ELSE st

\* a variant of apply without the bypass: the sample loop runs whatever delayOn
MyDelayApplyNoBypass(d, p, buffer, numSamples, numChannels) ==
    LET st == MyDelayLoop([delay |-> [d EXCEPT !.emptyBuffers = FALSE],
                           buffer |-> buffer], p, 0, numSamples, numChannels)
    IN  [delay |-> st.delay, buffer |-> st.buffer, cleared |-> FALSE]

\* a variant of apply that silences every channel after the second
MyDelayApplySilencesFurtherChannels(d, p, buffer, numSamples, numChannels) ==
    IF ~ p.delayOn
    THEN [delay |-> IF ~ d.emptyBuffers THEN MyDelayClearBuffers(d) ELSE d,
          buffer |-> buffer, cleared |-> ~ d.emptyBuffers]
    ELSE LET st == MyDelayLoop([delay |-> [d EXCEPT !.emptyBuffers = FALSE],
                                buffer |-> buffer], p, 0, numSamples, numChannels)
         IN  [delay |-> st.delay,
              buffer |-> [c \in 1..Len(st.buffer) |->
                             IF c > 2 THEN [i \in 1..Len(st.buffer[c]) |-> 0]
                             ELSE st.buffer[c]],
              cleared |-> FALSE]

\* MyDelay::apply on a prepared object: the object and the audio buffer
\* after the call, and whether the call cleared the lines
MyDelayApply(d, p, buffer, numSamples, numChannels) ==
    IF ~ p.delayOn
    THEN [delay |-> IF ~ d.emptyBuffers THEN MyDelayClearBuffers(d) ELSE d,
          buffer |-> buffer, cleared |-> ~ d.emptyBuffers]
    ELSE LET st == MyDelayLoop([delay |-> [d EXCEPT !.emptyBuffers = FALSE],
                                buffer |-> buffer], p, 0, numSamples, numChannels)
         IN  [delay |-> st.delay, buffer |-> st.buffer, cleared |-> FALSE]

\* MyPingPongDelay before prepareToPlay, as MyDelayNew
MyPingPongDelayNew ==
    [leftDelayBuffer |-> <<>>, rightDelayBuffer |-> <<>>, sampleRate |-> 0,
     smoothDelayInSamples |-> SmoothedNew, smoothFrequency |-> SmoothedNew,
     bufferSize |-> 0, currentIndex |-> 0, emptyBuffers |-> FALSE]

PingPongClearBuffers(d) ==
    [d EXCEPT !.leftDelayBuffer = [i \in 1..d.bufferSize |-> 0],
              !.rightDelayBuffer = [i \in 1..d.bufferSize |-> 0],
              !.currentIndex = 0, !.emptyBuffers = TRUE]

\* a variant of resetBuffers that sizes the lines as MyDelay does
PingPongResetBuffersTwoSeconds(d) ==
    PingPongClearBuffers([d EXCEPT !.bufferSize = 2 * d.sampleRate + 1])

PingPongResetBuffers(d) ==
    PingPongClearBuffers([d EXCEPT !.bufferSize = 4 * d.sampleRate + 1])

\* smoothFrequency is reset but never given a value; smoothDelayInSamples
\* is given its value twice
PingPongPrepareToPlay(d, sampleRate) ==
    LET reset == PingPongResetBuffers([d EXCEPT !.sampleRate = sampleRate])
    IN  [reset EXCEPT
            !.smoothDelayInSamples =
                SmoothedSetCurrentAndTargetValue(
                    SmoothedReset(reset.smoothDelayInSamples, sampleRate, DelayRampLength),
                    (sampleRate * FracOne) \div 2),
            !.smoothFrequency =
                SmoothedReset(reset.smoothFrequency, sampleRate, DelayRampLength)]

\* 1.0f / (2 * delayTime) as a float division
PingPongFrequency(delayTime) ==
    IF 2 * delayTime = 0 THEN FloatInfinity
    ELSE (HertzOne * TimeOne) \div (2 * delayTime)

PingPongUpdateParams(d, p) ==
    [d EXCEPT !.smoothDelayInSamples =
                  SmoothedSetTargetValue(d.smoothDelayInSamples,
                                         DelayTimeInSamples(p, d.sampleRate)),
              !.smoothFrequency =
                  SmoothedSetTargetValue(d.smoothFrequency, PingPongFrequency(p.delayTime))]

PingPongIncrementCurrentIndex(d) ==
    [d EXCEPT !.currentIndex = CppMod(d.currentIndex + 1, d.bufferSize)]

GetInterpolatedDelayedSample(d, lineBuffer, exactDelayInSamples) ==
    InterpolatedRead(lineBuffer, d.currentIndex, d.bufferSize, exactDelayInSamples).sample

\* one iteration of the sample loop of MyPingPongDelay::apply
\* a variant of the output mix without the other channel's delayed sample
PingPongOutputSameChannelOnly(p, original, sameDelayed, otherDelayed) ==
    (p.delayDryLevel * original * GainOne
     + p.delayDepth * p.delayWetLevel * sameDelayed) \div (GainOne * GainOne)

\* the sample one channel of the ping-pong delay puts out: the dry sample of
\* that channel, the delayed sample of its own line at the depth and the
\* delayed sample of the other line at 1 - depth
PingPongOutput(p, original, sameDelayed, otherDelayed) ==
    LET sameChannelGain == p.delayDepth
        otherChannelGain == GainOne - sameChannelGain
        leveledSameSample == p.delayWetLevel * sameDelayed
        leveledOtherSample == p.delayWetLevel * otherDelayed
    IN  (p.delayDryLevel * original * GainOne
         + sameChannelGain * leveledSameSample
         + otherChannelGain * leveledOtherSample) \div (GainOne * GainOne)

PingPongSample(st, p, sampleIndex, numChannels) ==
    LET updated == PingPongUpdateParams(st.delay, p)
        smoothed == SmoothedGetNextValue(updated.smoothDelayInSamples)
        d == [updated EXCEPT !.smoothDelayInSamples = smoothed]
        exactDelayInSamples == smoothed.currentValue
        rightChannelAvailable == numChannels > 1
        originalLeftSample == st.buffer[1][sampleIndex + 1]
        originalRightSample == st.buffer[2][sampleIndex + 1]
        originalSample == IF rightChannelAvailable
                          THEN (originalLeftSample + originalRightSample) \div 2
                          ELSE originalLeftSample
        delayedLeftSample ==
            GetInterpolatedDelayedSample(d, d.leftDelayBuffer, exactDelayInSamples)
        delayedRightSample ==
            GetInterpolatedDelayedSample(d, d.rightDelayBuffer, 2 * exactDelayInSamples)
        newLeftSample == PingPongOutput(p, originalLeftSample, delayedLeftSample,
                                        delayedRightSample)
        newRightSample == PingPongOutput(p, originalRightSample, delayedRightSample,
                                         delayedLeftSample)
    IN  [delay |-> PingPongIncrementCurrentIndex(
                       [d EXCEPT
                           !.leftDelayBuffer[d.currentIndex + 1] =
                               originalSample
                               + (p.delayFeedback * delayedLeftSample) \div GainOne,
                           !.rightDelayBuffer[d.currentIndex + 1] =
                               originalSample
                               + (p.delayFeedback * delayedRightSample) \div (2 * GainOne)]),
         buffer |-> IF rightChannelAvailable
                    THEN [st.buffer EXCEPT ![1][sampleIndex + 1] = newLeftSample,
                                           ![2][sampleIndex + 1] = newRightSample]
                    ELSE [st.buffer EXCEPT ![1][sampleIndex + 1] = newLeftSample]]

RECURSIVE PingPongLoop(_, _, _, _, _)
PingPongLoop(st, p, sampleIndex, numSamples, numChannels) ==
    IF sampleIndex < numSamples
    THEN PingPongLoop(PingPongSample(st, p, sampleIndex, numChannels), p,
                      sampleIndex + 1, numSamples, numChannels)
    ELSE st

\* a variant of apply whose on-state path leaves emptyBuffers as it was
PingPongApplyKeepsEmptyFlag(d, p, buffer, numSamples, numChannels) ==
    IF ~ p.delayOn
    THEN [delay |-> IF ~ d.emptyBuffers THEN PingPongClearBuffers(d) ELSE d,
          buffer |-> buffer, cleared |-> ~ d.emptyBuffers]
    ELSE LET st == PingPongLoop([delay |-> d, buffer |-> buffer], p, 0, numSamples,
                                numChannels)
         IN  [delay |-> st.delay, buffer |-> st.buffer, cleared |-> FALSE]

\* MyPingPongDelay::apply on a prepared object
PingPongApply(d, p, buffer, numSamples, numChannels) ==
    IF ~ p.delayOn
    THEN [delay |-> IF ~ d.emptyBuffers THEN PingPongClearBuffers(d) ELSE d,
          buffer |-> buffer, cleared |-> ~ d.emptyBuffers]
    ELSE LET st == PingPongLoop([delay |-> [d EXCEPT !.emptyBuffers = FALSE],
                                 buffer |-> buffer], p, 0, numSamples, numChannels)
         IN  [delay |-> st.delay, buffer |-> st.buffer, cleared |-> FALSE]

-----------------------------------------------------------------------------
(* MyReverb: the bypass flag around juce::Reverb.  The parameter sets of    *)
(* the model keep reverb_on at its declared default, false, so the buffer   *)
(* leaves apply as it entered it.                                           *)

\* a reverb object as constructed: isReset = false
MyReverbNew == [isReset |-> FALSE]

MyReverbReset(r) == [r EXCEPT !.isReset = TRUE]

MyReverbPrepareToPlay(r) == MyReverbReset(r)

\* MyReverb::apply: the bypass resets the reverb unless it is reset already
MyReverbApply(r, p) ==
    IF ~ p.reverbOn
    THEN IF ~ r.isReset THEN MyReverbReset(r) ELSE r
    ELSE [r EXCEPT !.isReset = FALSE]

-----------------------------------------------------------------------------
(* MyOscillator and MyFilter: their interfaces as section 6 of the          *)
(* specification gives them.  A tick counter stands for the internal state  *)
(* that getNextSample and apply advance.                                    *)

OscNew == [frequency |-> 0, applyFrequencyMod |-> FALSE, applyCentsMod |-> FALSE,
           ticks |-> 0]
OscStartNote(o, frequency) == [o EXCEPT !.frequency = frequency]
OscUpdateParams(o, applyFrequencyMod, applyCentsMod) ==
    [o EXCEPT !.applyFrequencyMod = applyFrequencyMod, !.applyCentsMod = applyCentsMod]
OscGetNextSample(o) == [o EXCEPT !.ticks = (o.ticks + 1) % OscPeriod]

FilterNew == [gate |-> "idle", applyFrequencyMod |-> FALSE, applyQMod |-> FALSE,
              ticks |-> 0]
FilterStartNote(f) == [f EXCEPT !.gate = "open"]
FilterStopNote(f) == [f EXCEPT !.gate = IF f.gate = "open" THEN "released" ELSE f.gate]
FilterApply(f, applyFrequencyMod, applyQMod) ==
    [f EXCEPT !.applyFrequencyMod = applyFrequencyMod, !.applyQMod = applyQMod,
              !.ticks = (f.ticks + 1) % OscPeriod]

\* juce::MidiMessage::getMidiNoteInHertz, on the octaves of A4
MidiNoteInHertz(midiNoteNumber) ==
    IF midiNoteNumber >= 69
    THEN 440 * 2 ^ ((midiNoteNumber - 69) \div 12)
    ELSE 440 \div 2 ^ ((69 - midiNoteNumber) \div 12)

-----------------------------------------------------------------------------
(* Parameter values, buffers and inputs the model draws from *)

\* amp, LFO, noise and delay parameters of MyParameters; times in units of
\* 1/TimeOne s
BaseParams ==
    [ampEnvAttack |-> 25, ampEnvDecay |-> 0, ampEnvSustain |-> EnvOne,
     ampEnvRelease |-> 50, ampDistOn |-> FALSE, ampDistGain |-> 1,
     ampVolume |-> VolOne,
     lfoOn |-> FALSE, lfoType |-> 0, lfoAppliesTo |-> 0, lfoFrequency |-> 2,
     lfoDepth |-> DepthOne \div 2,
     noiseOn |-> FALSE, noiseGain |-> 0, noiseFilter |-> 2, noiseDuration |-> 100,
     delayOn |-> FALSE, delayType |-> 1, delayTime |-> TimeOne \div 2,
     delayWetLevel |-> 0, delayDryLevel |-> 1, delayFeedback |-> 0,
     delayDepth |-> GainOne, reverbOn |-> FALSE]

\* a sustain level of 1/2 with the longest release and the LFO on the volume
HalfSustainParams ==
    [BaseParams EXCEPT !.ampEnvDecay = 50, !.ampEnvSustain = EnvOne \div 2,
                       !.ampEnvRelease = 100, !.ampVolume = 1,
                       !.lfoOn = TRUE, !.lfoType = 3, !.lfoAppliesTo = 8,
                       !.lfoDepth = DepthOne]

\* no sustain, distortion on and the LFO on the distortion gain
DistortedParams ==
    [BaseParams EXCEPT !.ampEnvAttack = 50, !.ampEnvSustain = 0,
                       !.ampDistOn = TRUE, !.ampDistGain = 2,
                       !.lfoOn = TRUE, !.lfoType = 2, !.lfoAppliesTo = 9,
                       !.lfoDepth = DepthOne]

\* a sustain level of 1/16 with the longest release
FaintSustainParams ==
    [BaseParams EXCEPT !.ampEnvSustain = EnvOne \div 16, !.ampEnvRelease = 100]

\* no release and the LFO on both oscillators' frequency
AbruptParams ==
    [BaseParams EXCEPT !.ampEnvRelease = 0, !.ampVolume = 1,
                       !.lfoOn = TRUE, !.lfoType = 1, !.lfoAppliesTo = 4]

VoiceParams ==
    {BaseParams, HalfSustainParams, FaintSustainParams, DistortedParams, AbruptParams}

\* every setting of the LFO parameters
LfoParams ==
    {[BaseParams EXCEPT !.lfoOn = on, !.lfoType = type, !.lfoAppliesTo = appliesTo,
                        !.lfoFrequency = frequency, !.lfoDepth = depth] :
        on \in BOOLEAN, type \in 0..4, appliesTo \in 0..9,
        frequency \in 1..3, depth \in 0..DepthOne}

MidiNotes == {57}
Velocities == {VelOne \div 2}
\* a signal MyFilter::apply returns over one block, by sample index:
\* constant, or alternating in sign
FilterSignal(alternating) ==
    [i \in 0..(MaxBlock - 1) |-> IF alternating /\ i % 2 = 0 THEN 0 - 1 ELSE 1]

\* a buffer of numChannels channels holding c * base in channel c
HostBuffer(numChannels, base) ==
    [c \in 1..numChannels |-> [i \in 1..MaxBlock |-> c * base]]

\* what one call of renderNextBlock is given: the host's buffer (silent mono,
\* or stereo holding what other voices added) and the filter's signal
RenderInputs ==
    {[buffer |-> HostBuffer(1, 0), filtered |-> FilterSignal(FALSE)],
     [buffer |-> HostBuffer(2, OutOne \div 8), filtered |-> FilterSignal(TRUE)]}

NoRouting ==
    [osc1Frequency |-> FALSE, osc1Cents |-> FALSE, osc2Frequency |-> FALSE,
     osc2Cents |-> FALSE, filterFrequency |-> FALSE, filterQ |-> FALSE,
     ampVolume |-> FALSE, ampDistortion |-> FALSE]

\* the record lastOp holds when nothing has been called yet
OpNone ==
    [op |-> "none", midiNoteNumber |-> NoNote, velocity |-> 0,
     allowTailOff |-> FALSE, startSample |-> 0, numSamples |-> 0,
     buffer |-> <<>>, calls |-> <<>>, amped |-> <<>>, closedAt |-> 0,
     lfoSample |-> 0, routing |-> NoRouting, sample |-> 0]

-----------------------------------------------------------------------------
(* MySynthVoice *)

\* the eight routing queries of MyLfo, as renderNextBlock asks them
LfoRouting(p) ==
    [osc1Frequency |-> AppliesToOsc1Frequency(p), osc1Cents |-> AppliesToOsc1Cents(p),
     osc2Frequency |-> AppliesToOsc2Frequency(p), osc2Cents |-> AppliesToOsc2Cents(p),
     filterFrequency |-> AppliesToFilterFrequency(p), filterQ |-> AppliesToFilterQ(p),
     ampVolume |-> AppliesToAmpVolume(p), ampDistortion |-> AppliesToAmpDistortion(p)]

\* a variant that writes the first channel only
AddToFirstChannel(buf, sampleIndex, value) ==
    [chan \in 1..Len(buf) |->
        IF chan = 1
        THEN [buf[chan] EXCEPT ![sampleIndex + 1] = buf[chan][sampleIndex + 1] + value]
        ELSE buf[chan]]

\* outputBuffer.addSample (chan, sampleIndex, value) for every channel
AddToAllChannels(buf, sampleIndex, value) ==
    [chan \in 1..Len(buf) |->
        [buf[chan] EXCEPT ![sampleIndex + 1] = buf[chan][sampleIndex + 1] + value]]

\* one iteration of the sample loop of renderNextBlock, given what
\* lfo.getNextSample() (lr) and amp.apply (ar) return in it
RenderSampleWith(st, p, sampleIndex, lr, ar) ==
    LET lfoSample == lr.sample
        o1 == OscGetNextSample(OscUpdateParams(st.osc1, AppliesToOsc1Frequency(p),
                                               AppliesToOsc1Cents(p)))
        o2 == OscGetNextSample(OscUpdateParams(st.osc2, AppliesToOsc2Frequency(p),
                                               AppliesToOsc2Cents(p)))
        nz == NoiseGetNextSample(st.noiseGen, p)
        f  == FilterApply(st.filter, AppliesToFilterFrequency(p), AppliesToFilterQ(p))
        closing == st.ending /\ AmpIsClosed(ar.amp)
    IN  [st EXCEPT !.lfo = lr.lfo, !.osc1 = o1, !.osc2 = o2, !.noiseGen = nz.noiseGen,
                   !.filter = f, !.amp = ar.amp,
                   !.buf = AddToAllChannels(st.buf, sampleIndex, ar.out),
                   !.amped = Append(st.amped, ar.out),
                   !.lfoSample = lfoSample,
                   !.note = IF closing THEN NoNote ELSE st.note,
                   !.playing = IF closing THEN FALSE ELSE st.playing,
                   !.ending = IF closing THEN FALSE ELSE st.ending,
                   !.closedAt = IF closing THEN Len(st.amped) + 1 ELSE st.closedAt]

\* one iteration of the sample loop: the LFO sample is taken first and
\* handed to amp.apply
RenderSample(st, p, sampleRate, sampleIndex, filteredSample) ==
    CHOOSE next \in
        {RenderSampleWith(st, p, sampleIndex, lr,
                          AmpApply(st.amp, p, filteredSample, AppliesToAmpVolume(p),
                                   AppliesToAmpDistortion(p), lr.sample)) :
            lr \in {LfoGetNextSample(LfoUpdateParams(st.lfo, p, sampleRate), p)}} : TRUE

\* the sample loop: sampleIndex runs from startSample to startSample + numSamples - 1;
\* each iteration starts from the state the one before it left
RECURSIVE RenderLoop(_, _, _, _, _, _)
RenderLoop(st, p, sampleRate, sampleIndex, endIndex, filtered) ==
    IF sampleIndex < endIndex
    THEN CHOOSE last \in
             {RenderLoop(next, p, sampleRate, sampleIndex + 1, endIndex, filtered) :
                 next \in {RenderSample(st, p, sampleRate, sampleIndex,
                                        filtered[sampleIndex])}} : TRUE
    ELSE st

\* a variant of the body without the test of playing
RenderBlockUnguarded(st, p, sampleRate, startSample, numSamples, filtered) ==
    RenderLoop([st EXCEPT !.noiseGen = NoiseUpdateParams(st.noiseGen, p, sampleRate),
                          !.amp = AmpUpdateParams(st.amp, p, sampleRate)],
               p, sampleRate, startSample, startSample + numSamples, filtered)

\* the body of renderNextBlock: nothing unless playing, else updateParams on
\* the noise generator and the amp and then the sample loop
RenderBlock(st, p, sampleRate, startSample, numSamples, filtered) ==
    IF st.playing
    THEN CHOOSE last \in
             {RenderLoop(updated, p, sampleRate, startSample, startSample + numSamples,
                         filtered) :
                 updated \in {[st EXCEPT
                                  !.noiseGen = NoiseUpdateParams(st.noiseGen, p, sampleRate),
                                  !.amp = AmpUpdateParams(st.amp, p, sampleRate)]}} : TRUE
    ELSE st

VoiceState(buffer) ==
    [playing |-> playing, ending |-> ending, note |-> currentlyPlayingNote,
     osc1 |-> osc1, osc2 |-> osc2, noiseGen |-> noiseGen, lfo |-> lfo,
     filter |-> filter, amp |-> amp, buf |-> buffer,
     amped |-> <<>>, closedAt |-> 0, lfoSample |-> 0]

\* a variant of startNote that leaves ending as it was
StartNoteKeepsEnding(midiNoteNumber, velocity) ==
    /\ playing' = TRUE
    /\ currentlyPlayingNote' = midiNoteNumber
    /\ osc1' = OscStartNote(osc1, MidiNoteInHertz(midiNoteNumber))
    /\ osc2' = OscStartNote(osc2, MidiNoteInHertz(midiNoteNumber))
    /\ noiseGen' = NoiseStartNote(noiseGen)
    /\ filter' = FilterStartNote(filter)
    /\ amp' = AmpStartNote(amp, velocity)
    /\ lastOp' = [OpNone EXCEPT !.op = "startNote",
                     !.midiNoteNumber = midiNoteNumber, !.velocity = velocity,
                     !.calls = <<"osc1.startNote", "osc2.startNote",
                                 "noiseGen.startNote", "filter.startNote",
                                 "amp.startNote">>]
    /\ UNCHANGED <<params, ending, lfo, outputBuffer, delayVars>>

\* the host sets currentlyPlayingNote and calls startNote
StartNote(midiNoteNumber, velocity) ==
    LET frequency == MidiNoteInHertz(midiNoteNumber)
    IN  /\ playing' = TRUE
        /\ ending' = FALSE
        /\ currentlyPlayingNote' = midiNoteNumber
        /\ osc1' = OscStartNote(osc1, frequency)
        /\ osc2' = OscStartNote(osc2, frequency)
        /\ noiseGen' = NoiseStartNote(noiseGen)
        /\ filter' = FilterStartNote(filter)
        /\ amp' = AmpStartNote(amp, velocity)
        /\ lastOp' = [OpNone EXCEPT !.op = "startNote",
                         !.midiNoteNumber = midiNoteNumber, !.velocity = velocity,
                         !.calls = <<"osc1.startNote", "osc2.startNote",
                                     "noiseGen.startNote", "filter.startNote",
                                     "amp.startNote">>]
        /\ UNCHANGED <<params, lfo, outputBuffer, delayVars>>

\* a variant of stopNote whose hard stop clears the note but keeps playing
StopNoteKeepsPlaying(allowTailOff) ==
    /\ noiseGen' = NoiseStopNote(noiseGen)
    /\ filter' = FilterStopNote(filter)
    /\ amp' = AmpStopNote(amp)
    /\ IF allowTailOff
       THEN /\ ending' = TRUE
            /\ UNCHANGED <<playing, currentlyPlayingNote>>
       ELSE /\ currentlyPlayingNote' = NoNote
            /\ UNCHANGED <<playing, ending>>
    /\ lastOp' = [OpNone EXCEPT !.op = "stopNote", !.allowTailOff = allowTailOff,
                     !.calls = <<"noiseGen.stopNote", "filter.stopNote", "amp.stopNote">>
                                \o (IF allowTailOff THEN <<>> ELSE <<"clearCurrentNote">>)]
    /\ UNCHANGED <<params, osc1, osc2, lfo, outputBuffer, delayVars>>

\* a variant of stopNote that clears the note whether or not a tail is allowed
StopNoteAlwaysClears(allowTailOff) ==
    /\ noiseGen' = NoiseStopNote(noiseGen)
    /\ filter' = FilterStopNote(filter)
    /\ amp' = AmpStopNote(amp)
    /\ currentlyPlayingNote' = NoNote
    /\ IF allowTailOff
       THEN ending' = TRUE /\ UNCHANGED playing
       ELSE playing' = FALSE /\ UNCHANGED ending
    /\ lastOp' = [OpNone EXCEPT !.op = "stopNote", !.allowTailOff = allowTailOff,
                     !.calls = <<"noiseGen.stopNote", "filter.stopNote", "amp.stopNote",
                                 "clearCurrentNote">>]
    /\ UNCHANGED <<params, osc1, osc2, lfo, outputBuffer, delayVars>>

StopNote(allowTailOff) ==
    /\ noiseGen' = NoiseStopNote(noiseGen)
    /\ filter' = FilterStopNote(filter)
    /\ amp' = AmpStopNote(amp)
    /\ IF allowTailOff
       THEN /\ ending' = TRUE
            /\ UNCHANGED <<playing, currentlyPlayingNote>>
       ELSE /\ currentlyPlayingNote' = NoNote
            /\ playing' = FALSE
            /\ UNCHANGED ending
    /\ lastOp' = [OpNone EXCEPT !.op = "stopNote", !.allowTailOff = allowTailOff,
                     !.calls = <<"noiseGen.stopNote", "filter.stopNote", "amp.stopNote">>
                                \o (IF allowTailOff THEN <<>> ELSE <<"clearCurrentNote">>)]
    /\ UNCHANGED <<params, osc1, osc2, lfo, outputBuffer, delayVars>>

\* the host passes the buffer: silent, or holding what other voices added
RenderNextBlock(buffer, startSample, numSamples, filtered) ==
    /\ \E st \in {RenderBlock(VoiceState(buffer), params, SampleRate, startSample,
                              numSamples, filtered)} :
           /\ playing' = st.playing
           /\ ending' = st.ending
           /\ currentlyPlayingNote' = st.note
           /\ osc1' = st.osc1
           /\ osc2' = st.osc2
           /\ noiseGen' = st.noiseGen
           /\ lfo' = st.lfo
           /\ filter' = st.filter
           /\ amp' = st.amp
           /\ outputBuffer' = st.buf
           /\ lastOp' = [OpNone EXCEPT !.op = "renderNextBlock", !.buffer = buffer,
                            !.startSample = startSample, !.numSamples = numSamples,
                            !.amped = st.amped, !.closedAt = st.closedAt,
                            !.lfoSample = st.lfoSample,
                            !.routing = IF st.amped = <<>> THEN NoRouting
                                        ELSE LfoRouting(params)]
    /\ UNCHANGED <<params, delayVars>>

\* the control thread changes parameters between two calls
SetParameters(p) ==
    /\ p # params
    /\ params' = p
    /\ UNCHANGED <<voiceVars, outputBuffer, delayVars, lastOp>>

\* juce::Random seeds itself from the clock
RandomSeeds == {0}

Init ==
    /\ params \in VoiceParams
    /\ playing = FALSE
    /\ ending = FALSE
    /\ currentlyPlayingNote = NoNote
    /\ osc1 = OscNew
    /\ osc2 = OscNew
    /\ noiseGen \in {NoiseNew(seed) : seed \in RandomSeeds}
    /\ lfo = LfoNew
    /\ filter = FilterNew
    /\ amp = AmpNew
    /\ outputBuffer = <<>>
    /\ myNormalDelay = MyDelayNew
    /\ myPingPongDelay = MyPingPongDelayNew
    /\ myReverb = MyReverbNew
    /\ lastOp = OpNone

DoStartNote == \E n \in MidiNotes, v \in Velocities : StartNote(n, v)
DoStopNote == \E allowTailOff \in BOOLEAN : StopNote(allowTailOff)
DoRenderNextBlock ==
    \E startSample \in 0..(MaxBlock - 1) :
      \E numSamples \in 1..(MaxBlock - startSample) :
        \E in \in RenderInputs :
          RenderNextBlock(in.buffer, startSample, numSamples, in.filtered)
DoSetParameters == \E p \in VoiceParams : SetParameters(p)

Next ==
    \/ DoStartNote
    \/ DoStopNote
    \/ DoRenderNextBlock
    \/ DoSetParameters

Spec == Init /\ [][Next]_vars

\* the host keeps calling renderNextBlock
FairSpec == Spec /\ WF_vars(DoRenderNextBlock)

-----------------------------------------------------------------------------
(* MyLfo on its own: the calls renderNextBlock makes on it for one sample *)

LfoTick ==
    /\ LET lr == LfoGetNextSample(LfoUpdateParams(lfo, params, SampleRate), params)
       IN  /\ lfo' = lr.lfo
           /\ lastOp' = [OpNone EXCEPT !.op = "lfo", !.lfoSample = lr.sample,
                                       !.routing = LfoRouting(params)]
    /\ UNCHANGED <<params, playing, ending, currentlyPlayingNote, osc1, osc2,
                   noiseGen, filter, amp, outputBuffer, delayVars>>

\* the control thread changes one LFO parameter
SetLfoParameter ==
    /\ \/ \E on \in BOOLEAN : params' = [params EXCEPT !.lfoOn = on]
       \/ \E type \in 0..4 : params' = [params EXCEPT !.lfoType = type]
       \/ \E appliesTo \in 0..9 : params' = [params EXCEPT !.lfoAppliesTo = appliesTo]
       \/ \E frequency \in 1..3 : params' = [params EXCEPT !.lfoFrequency = frequency]
       \/ \E depth \in 0..DepthOne : params' = [params EXCEPT !.lfoDepth = depth]
    /\ params' # params
    /\ lastOp' = [OpNone EXCEPT !.op = "setParameters"]
    /\ UNCHANGED <<voiceVars, outputBuffer, delayVars>>

InitLfo ==
    /\ params \in LfoParams
    /\ playing = FALSE
    /\ ending = FALSE
    /\ currentlyPlayingNote = NoNote
    /\ osc1 = OscNew
    /\ osc2 = OscNew
    /\ noiseGen \in {NoiseNew(seed) : seed \in RandomSeeds}
    /\ lfo = LfoNew
    /\ filter = FilterNew
    /\ amp = AmpNew
    /\ outputBuffer = <<>>
    /\ myNormalDelay = MyDelayNew
    /\ myPingPongDelay = MyPingPongDelayNew
    /\ myReverb = MyReverbNew
    /\ lastOp = OpNone

NextLfo ==
    \/ LfoTick
    \/ SetLfoParameter

SpecLfo == InitLfo /\ [][NextLfo]_vars

-----------------------------------------------------------------------------
(* MyNoiseGenerator on its own: the calls the voice makes on it *)

\* every setting of the noise parameters the model draws from: the noise
\* switch, two gains, and a duration of 1 s or of the maximum, 100 s
NoiseParams ==
    {[BaseParams EXCEPT !.noiseOn = on, !.noiseGain = gain, !.noiseDuration = duration] :
        on \in BOOLEAN, gain \in 0..1, duration \in {TimeOne, 100 * TimeOne}}

NoiseGeneratorStartNote ==
    /\ noiseGen' = NoiseStartNote(noiseGen)
    /\ lastOp' = [OpNone EXCEPT !.op = "noiseGen.startNote"]
    /\ UNCHANGED <<params, playing, ending, currentlyPlayingNote, osc1, osc2, lfo,
                   filter, amp, outputBuffer, delayVars>>

NoiseGeneratorStopNote ==
    /\ noiseGen' = NoiseStopNote(noiseGen)
    /\ lastOp' = [OpNone EXCEPT !.op = "noiseGen.stopNote"]
    /\ UNCHANGED <<params, playing, ending, currentlyPlayingNote, osc1, osc2, lfo,
                   filter, amp, outputBuffer, delayVars>>

NoiseGeneratorUpdateParams ==
    /\ noiseGen' = NoiseUpdateParams(noiseGen, params, SampleRate)
    /\ lastOp' = [OpNone EXCEPT !.op = "noiseGen.updateParams"]
    /\ UNCHANGED <<params, playing, ending, currentlyPlayingNote, osc1, osc2, lfo,
                   filter, amp, outputBuffer, delayVars>>

NoiseGeneratorGetNextSample ==
    /\ LET nz == NoiseGetNextSample(noiseGen, params)
       IN  /\ noiseGen' = nz.noiseGen
           /\ lastOp' = [OpNone EXCEPT !.op = "noiseGen.getNextSample",
                                       !.sample = nz.sample]
    /\ UNCHANGED <<params, playing, ending, currentlyPlayingNote, osc1, osc2, lfo,
                   filter, amp, outputBuffer, delayVars>>

\* the control thread changes the noise parameters
SetNoiseParameters ==
    /\ \E p \in NoiseParams : p # params /\ params' = p
    /\ UNCHANGED <<voiceVars, outputBuffer, delayVars, lastOp>>

InitNoise ==
    /\ params \in NoiseParams
    /\ playing = FALSE
    /\ ending = FALSE
    /\ currentlyPlayingNote = NoNote
    /\ osc1 = OscNew
    /\ osc2 = OscNew
    /\ noiseGen \in {NoiseNew(seed) : seed \in RandomSeeds}
    /\ lfo = LfoNew
    /\ filter = FilterNew
    /\ amp = AmpNew
    /\ outputBuffer = <<>>
    /\ myNormalDelay = MyDelayNew
    /\ myPingPongDelay = MyPingPongDelayNew
    /\ myReverb = MyReverbNew
    /\ lastOp = OpNone

NextNoise ==
    \/ NoiseGeneratorStartNote
    \/ NoiseGeneratorStopNote
    \/ NoiseGeneratorUpdateParams
    \/ NoiseGeneratorGetNextSample
    \/ SetNoiseParameters

SpecNoise == InitNoise /\ [][NextNoise]_vars

-----------------------------------------------------------------------------
(* MyAmp on its own: the calls the voice makes on it, in any order *)

\* three of the parameter sets of the voice: full sustain, a sustain of 1/2
\* with half the volume, and no sustain with distortion
AmpParams == {BaseParams, HalfSustainParams, DistortedParams}

\* what apply is given: the filtered sample, the two routing flags and the
\* LFO sample, which the LFO keeps within [-1, 1] and which is drawn here
\* from [-2, 2]
AmpLfoSamples == {0 - 2 * LfoOne, 0 - 1, LfoOne \div 2, 2 * LfoOne}
AmpInputs ==
    {[sample |-> 1, lfoSample |-> lfoSample,
      applyLfoToAmpVolume |-> TRUE, applyLfoToAmpDist |-> TRUE] :
        lfoSample \in AmpLfoSamples}
    \cup {[sample |-> 0 - 1, lfoSample |-> 0 - 1,
           applyLfoToAmpVolume |-> FALSE, applyLfoToAmpDist |-> FALSE]}
    \cup {[sample |-> 1, lfoSample |-> LfoOne \div 2,
           applyLfoToAmpVolume |-> toVolume, applyLfoToAmpDist |-> ~ toVolume] :
             toVolume \in BOOLEAN}

\* the count of apply calls after startNote stops at "several"
SeveralApplies == 2

\* velocityGain has no initializer: before the first startNote it holds any value
AmpInitialVelocityGains == {0, VelOne}

\* lastOp of a MyAmp call.  phase tells what the object went through since it
\* was constructed or last started: "constructed", "started", "stopped", or
\* "changed" when the note began with parameters the envelope had not been
\* given, or a parameter was written after the note began; sinceStart
\* and sinceStop count the apply calls after startNote and after the latest
\* stopNote, and updatedSinceStop tells whether updateParams ran after it
AmpOpNone ==
    [op |-> "none", phase |-> "constructed", sinceStart |-> 0, sinceStop |-> 0,
     updatedSinceStop |-> FALSE,
     velocity |-> 0, sample |-> 0, lfoSample |-> 0, applyLfoToAmpVolume |-> FALSE,
     applyLfoToAmpDist |-> FALSE, volume |-> 0, dist |-> 0, out |-> 0]

\* the envelope holds the current parameters: updateParams ran since they
\* were last written
AmpEnvLoaded ==
    /\ amp.ampEnv.attack = params.ampEnvAttack
    /\ amp.ampEnv.decay = params.ampEnvDecay
    /\ amp.ampEnv.sustain = params.ampEnvSustain
    /\ amp.ampEnv.release = params.ampEnvRelease

AmpDoStartNote ==
    /\ \E velocity \in Velocities :
           /\ amp' = AmpStartNote(amp, velocity)
           /\ lastOp' = [AmpOpNone EXCEPT
                            !.op = "amp.startNote",
                            !.phase = IF AmpEnvLoaded THEN "started" ELSE "changed",
                            !.velocity = velocity]
    /\ UNCHANGED <<params, playing, ending, currentlyPlayingNote, osc1, osc2, noiseGen,
                   lfo, filter, outputBuffer, delayVars>>

AmpDoStopNote ==
    /\ amp' = AmpStopNote(amp)
    /\ lastOp' = [AmpOpNone EXCEPT
                     !.op = "amp.stopNote",
                     !.phase = IF lastOp.phase = "started" THEN "stopped" ELSE lastOp.phase,
                     !.sinceStart = lastOp.sinceStart]
    /\ UNCHANGED <<params, playing, ending, currentlyPlayingNote, osc1, osc2, noiseGen,
                   lfo, filter, outputBuffer, delayVars>>

AmpDoUpdateParams ==
    /\ amp' = AmpUpdateParams(amp, params, SampleRate)
    /\ lastOp' = [AmpOpNone EXCEPT
                     !.op = "amp.updateParams", !.phase = lastOp.phase,
                     !.sinceStart = lastOp.sinceStart, !.sinceStop = lastOp.sinceStop,
                     !.updatedSinceStop = lastOp.updatedSinceStop
                                          \/ lastOp.phase = "stopped"]
    /\ UNCHANGED <<params, playing, ending, currentlyPlayingNote, osc1, osc2, noiseGen,
                   lfo, filter, outputBuffer, delayVars>>

AmpDoApply ==
    /\ \E in \in AmpInputs :
           LET sample == in.sample
               lfoSample == in.lfoSample
               applyLfoToAmpVolume == in.applyLfoToAmpVolume
               applyLfoToAmpDist == in.applyLfoToAmpDist
               ar == AmpApply(amp, params, sample, applyLfoToAmpVolume,
                              applyLfoToAmpDist, lfoSample)
           IN  /\ amp' = ar.amp
               /\ lastOp' = [AmpOpNone EXCEPT
                     !.op = "amp.apply", !.phase = lastOp.phase,
                     !.sinceStart = IF lastOp.phase = "started"
                                    THEN Min(SeveralApplies, lastOp.sinceStart + 1)
                                    ELSE lastOp.sinceStart,
                     !.sinceStop = IF lastOp.phase = "stopped"
                                   THEN Min(MaxApplies, lastOp.sinceStop + 1)
                                   ELSE lastOp.sinceStop,
                     !.updatedSinceStop = lastOp.updatedSinceStop,
                     !.sample = sample, !.lfoSample = lfoSample,
                     !.applyLfoToAmpVolume = applyLfoToAmpVolume,
                     !.applyLfoToAmpDist = applyLfoToAmpDist,
                     !.volume = GetAmpVolume(params, applyLfoToAmpVolume, lfoSample),
                     !.dist = GetAmpDist(params, applyLfoToAmpDist, lfoSample),
                     !.out = ar.out]
    /\ UNCHANGED <<params, playing, ending, currentlyPlayingNote, osc1, osc2, noiseGen,
                   lfo, filter, outputBuffer, delayVars>>

\* the control thread changes the amp parameters
SetAmpParameters ==
    /\ \E p \in AmpParams : p # params /\ params' = p
    /\ lastOp' = [lastOp EXCEPT !.op = "setParameters",
                                !.phase = IF lastOp.phase = "constructed"
                                          THEN "constructed" ELSE "changed"]
    /\ UNCHANGED <<voiceVars, outputBuffer, delayVars>>

InitAmp ==
    /\ params \in AmpParams
    /\ playing = FALSE
    /\ ending = FALSE
    /\ currentlyPlayingNote = NoNote
    /\ osc1 = OscNew
    /\ osc2 = OscNew
    /\ noiseGen \in {NoiseNew(seed) : seed \in RandomSeeds}
    /\ lfo = LfoNew
    /\ filter = FilterNew
    /\ amp \in {[AmpNew EXCEPT !.velocityGain = v] : v \in AmpInitialVelocityGains}
    /\ outputBuffer = <<>>
    /\ myNormalDelay = MyDelayNew
    /\ myPingPongDelay = MyPingPongDelayNew
    /\ myReverb = MyReverbNew
    /\ lastOp = AmpOpNone

NextAmp ==
    \/ AmpDoStartNote
    \/ AmpDoStopNote
    \/ AmpDoUpdateParams
    \/ AmpDoApply
    \/ SetAmpParameters

SpecAmp == InitAmp /\ [][NextAmp]_vars

-----------------------------------------------------------------------------
(* The effects of the processor: prepareToPlay, and processBlock from the   *)
(* buffer the synthesiser rendered: one of the two delays, then the reverb  *)

\* the declared minimum of delay_delay_time, in units of 1/TimeOne s
DelayTimeMinimum == 0

\* delay time, wet level, dry level, feedback and depth the model draws from:
\* a whole number of samples with the echo alone, and a fractional distance
\* with feedback and the ping-pong depth at 1/2
DelaySettings ==
    {[delayTime |-> TimeOne \div 4, delayWetLevel |-> GainOne, delayDryLevel |-> 0,
      delayFeedback |-> 0, delayDepth |-> GainOne],
     [delayTime |-> (3 * TimeOne) \div 10, delayWetLevel |-> GainOne \div 2,
      delayDryLevel |-> GainOne, delayFeedback |-> GainOne \div 2,
      delayDepth |-> GainOne \div 2]}

WithDelaySetting(on, type, s) ==
    [BaseParams EXCEPT !.delayOn = on, !.delayType = type,
                       !.delayTime = s.delayTime, !.delayWetLevel = s.delayWetLevel,
                       !.delayDryLevel = s.delayDryLevel,
                       !.delayFeedback = s.delayFeedback, !.delayDepth = s.delayDepth]

\* the ping-pong delay at the minimum of the delay time
MinimumDelayTimeParams ==
    WithDelaySetting(TRUE, 1,
                     [delayTime |-> DelayTimeMinimum, delayWetLevel |-> GainOne,
                      delayDryLevel |-> GainOne \div 2, delayFeedback |-> GainOne,
                      delayDepth |-> GainOne])

DelayParams ==
    {WithDelaySetting(on, type, s) : on \in BOOLEAN, type \in 0..1, s \in DelaySettings}
    \cup {MinimumDelayTimeParams}

\* the channel counts of the buffers handed to the delays
DelayChannelCounts == {1, 2, 3}

\* the buffer the synthesiser rendered: channel c holds a ramp of slope
\* c * RampStep that goes on from block to block (t samples came before)
RampStep == 16
DelayInput(numChannels, numSamples, t) ==
    [c \in 1..numChannels |-> [i \in 1..numSamples |-> RampStep * c * (t + i)]]

\* lastOp of the delay stage.  prepared tells whether the object called had
\* its buffers; outcome is "ok" or "fault" (an access through a null
\* pointer); processed counts the samples of on-state calls since
\* prepareToPlay; history holds the left-channel input MyDelay processed in
\* the on state, sample by sample, since its line was last cleared, a
\* parameter was last written or the other delay was last called;
\* lastApply[type + 1] tells whether the last call of that object found
\* delayOn set ("on"), clear ("off"), or was not made yet ("none"); calls
\* lists the calls processBlock made on the members of the processor, in
\* the order it made them
DelayOpNone ==
    [op |-> "none", type |-> 0, delayOn |-> FALSE, prepared |-> FALSE,
     outcome |-> "none", nullAccess |-> FALSE, cleared |-> FALSE, buffer |-> <<>>,
     numSamples |-> 0, numChannels |-> 0, processed |-> 0, history |-> <<>>,
     lastApply |-> <<"none", "none">>, calls |-> <<>>]

\* APAssignment3AudioProcessor::prepareToPlay prepares both delays and the
\* reverb
ProcessorPrepareToPlay ==
    /\ lastOp.outcome # "fault"
    /\ myNormalDelay' = MyDelayPrepareToPlay(myNormalDelay, SampleRate)
    /\ myPingPongDelay' = PingPongPrepareToPlay(myPingPongDelay, SampleRate)
    /\ myReverb' = MyReverbPrepareToPlay(myReverb)
    /\ lastOp' = [DelayOpNone EXCEPT !.op = "prepareToPlay", !.outcome = "ok"]
    /\ UNCHANGED <<params, voiceVars, outputBuffer>>

\* what the delay stage records of a call
DelayOp(type, prepared, outcome, nullAccess, cleared, buffer, numSamples, numChannels) ==
    [DelayOpNone EXCEPT
        !.op = "processBlock", !.type = type, !.delayOn = params.delayOn,
        !.prepared = prepared, !.outcome = outcome, !.nullAccess = nullAccess,
        !.cleared = cleared, !.buffer = buffer, !.numSamples = numSamples,
        !.numChannels = numChannels,
        !.processed = IF params.delayOn /\ outcome = "ok"
                      THEN lastOp.processed + numSamples ELSE lastOp.processed,
        !.history = IF type = 0 /\ params.delayOn /\ outcome = "ok"
                    THEN lastOp.history \o SubSeq(buffer[1], 1, numSamples)
                    ELSE <<>>,
        !.lastApply = [lastOp.lastApply EXCEPT
                          ![type + 1] = IF params.delayOn THEN "on" ELSE "off"],
        !.calls = <<"mySynth.renderNextBlock",
                    IF type = 0 THEN "myNormalDelay.apply" ELSE "myPingPongDelay.apply">>
                  \o (IF outcome = "ok" THEN <<"myReverb.apply">> ELSE <<>>)]

\* a variant of the first branch of processBlock that is taken whatever
\* delayType is
NormalDelayApplyWhateverType(buffer, numSamples, numChannels) ==
    /\ myNormalDelay.leftBuffer # <<>>
    /\ LET r == MyDelayApply(myNormalDelay, params, buffer, numSamples, numChannels)
       IN  /\ myNormalDelay' = r.delay
           /\ outputBuffer' = r.buffer
           /\ lastOp' = DelayOp(0, TRUE, "ok", FALSE, r.cleared, buffer, numSamples,
                                numChannels)
    /\ myReverb' = MyReverbApply(myReverb, params)
    /\ UNCHANGED <<params, voiceVars, myPingPongDelay>>

\* myNormalDelay.apply on a prepared object
NormalDelayApply(buffer, numSamples, numChannels) ==
    /\ params.delayType = 0
    /\ myNormalDelay.leftBuffer # <<>>
    /\ LET r == MyDelayApply(myNormalDelay, params, buffer, numSamples, numChannels)
       IN  /\ myNormalDelay' = r.delay
           /\ outputBuffer' = r.buffer
           /\ lastOp' = DelayOp(0, TRUE, "ok", FALSE, r.cleared, buffer, numSamples,
                                numChannels)
    /\ myReverb' = MyReverbApply(myReverb, params)
    /\ UNCHANGED <<params, voiceVars, myPingPongDelay>>

\* myPingPongDelay.apply on a prepared object
PingPongDelayApply(buffer, numSamples, numChannels) ==
    /\ params.delayType # 0
    /\ myPingPongDelay.leftDelayBuffer # <<>>
    /\ LET r == PingPongApply(myPingPongDelay, params, buffer, numSamples, numChannels)
       IN  /\ myPingPongDelay' = r.delay
           /\ outputBuffer' = r.buffer
           /\ lastOp' = DelayOp(1, TRUE, "ok", FALSE, r.cleared, buffer, numSamples,
                                numChannels)
    /\ myReverb' = MyReverbApply(myReverb, params)
    /\ UNCHANGED <<params, voiceVars, myNormalDelay>>

\* apply on an object that prepareToPlay never ran on.  bufferSize,
\* currentIndex and emptyBuffers are indeterminate and the buffers are null.
\* With delayOn set the sample loop reads and writes through the null
\* pointers.  With delayOn clear the call returns at once when emptyBuffers
\* happens to read true; otherwise clearBuffers runs, and writes through the
\* null pointers unless bufferSize happens to read 0 or less.  The reverb
\* is called when the delay returned.
UnpreparedDelayApply(buffer, numSamples, numChannels) ==
    /\ IF params.delayType = 0
       THEN myNormalDelay.leftBuffer = <<>>
       ELSE myPingPongDelay.leftDelayBuffer = <<>>
    /\ \E emptyBuffers \in BOOLEAN, bufferSizePositive \in BOOLEAN :
          LET nullAccess == params.delayOn \/ (~ emptyBuffers /\ bufferSizePositive)
          IN  /\ lastOp' = DelayOp(IF params.delayType = 0 THEN 0 ELSE 1, FALSE,
                                   IF nullAccess THEN "fault" ELSE "ok", nullAccess,
                                   ~ params.delayOn /\ ~ emptyBuffers, buffer,
                                   numSamples, numChannels)
              /\ myReverb' = IF nullAccess THEN myReverb
                             ELSE MyReverbApply(myReverb, params)
    /\ outputBuffer' = buffer
    /\ UNCHANGED <<params, voiceVars, myNormalDelay, myPingPongDelay>>

\* processBlock from the buffer mySynth.renderNextBlock filled: one of the
\* two delay objects is called, by delayType, then the reverb; the buffer has
\* one to three channels
DelayProcessBlock ==
    /\ lastOp.outcome # "fault"
    /\ \E numSamples \in 1..MaxBlock, numChannels \in DelayChannelCounts :
          /\ params.delayOn => lastOp.processed + numSamples <= MaxSamples
          /\ LET buffer == DelayInput(numChannels, numSamples, lastOp.processed)
             IN  \/ NormalDelayApply(buffer, numSamples, numChannels)
                 \/ PingPongDelayApply(buffer, numSamples, numChannels)
                 \/ UnpreparedDelayApply(buffer, numSamples, numChannels)

\* the control thread changes the delay parameters
SetDelayParameters ==
    /\ lastOp.outcome # "fault"
    /\ \E p \in DelayParams : p # params /\ params' = p
    /\ lastOp' = [lastOp EXCEPT !.op = "setParameters", !.history = <<>>]
    /\ UNCHANGED <<voiceVars, outputBuffer, delayVars>>

InitDelay ==
    /\ params \in DelayParams
    /\ playing = FALSE
    /\ ending = FALSE
    /\ currentlyPlayingNote = NoNote
    /\ osc1 = OscNew
    /\ osc2 = OscNew
    /\ noiseGen \in {NoiseNew(seed) : seed \in RandomSeeds}
    /\ lfo = LfoNew
    /\ filter = FilterNew
    /\ amp = AmpNew
    /\ outputBuffer = <<>>
    /\ myNormalDelay = MyDelayNew
    /\ myPingPongDelay = MyPingPongDelayNew
    /\ myReverb = MyReverbNew
    /\ lastOp = DelayOpNone

NextDelay ==
    \/ ProcessorPrepareToPlay
    \/ DelayProcessBlock
    \/ SetDelayParameters

SpecDelay == InitDelay /\ [][NextDelay]_vars

-----------------------------------------------------------------------------
(* The delays over the whole declared range of the delay time, prepared at  *)
(* a sample rate so low that the write index wraps within a few samples,    *)
(* or at one at which the smoothed delay distance takes two samples to      *)
(* reach a new target                                                       *)

\* the declared maximum of delay_delay_time, in units of 1/TimeOne s
DelayTimeMaximum == 2 * TimeOne

\* the sample rates prepareToPlay is called with
LowSampleRate == 1
RampSampleRate == 20
RangeSampleRates == {LowSampleRate, RampSampleRate}

\* the delay times the model draws from: the two ends of the declared range
\* and a time that is a fractional number of samples at the low rate
RangeDelayTimes == {DelayTimeMinimum, (2 * TimeOne) \div 5, DelayTimeMaximum}

\* the delay is on, with either type
RangeParams ==
    {WithDelaySetting(TRUE, type,
                      [delayTime |-> t, delayWetLevel |-> GainOne,
                       delayDryLevel |-> GainOne, delayFeedback |-> GainOne \div 2,
                       delayDepth |-> GainOne]) :
        type \in 0..1, t \in RangeDelayTimes}

\* APAssignment3AudioProcessor::prepareToPlay at one of the sample rates,
\* called before the first block and again before any block was processed.
\* The host has chosen a mono or a stereo layout by then, and every block
\* until the next prepareToPlay has that many channels.
RangePrepareToPlay ==
    /\ lastOp.processed = 0
    /\ \E sampleRate \in RangeSampleRates :
          /\ myNormalDelay' = MyDelayPrepareToPlay(myNormalDelay, sampleRate)
          /\ myPingPongDelay' = PingPongPrepareToPlay(myPingPongDelay, sampleRate)
    /\ myReverb' = MyReverbPrepareToPlay(myReverb)
    /\ \E numChannels \in 1..2 :
          lastOp' = [DelayOpNone EXCEPT !.op = "prepareToPlay", !.outcome = "ok",
                                        !.numChannels = numChannels]
    /\ UNCHANGED <<params, voiceVars, outputBuffer>>

\* processBlock after prepareToPlay, on a buffer of the layout; at the low
\* rate the blocks go on until the write index of either delay has wrapped
RangeProcessBlock ==
    /\ myNormalDelay.leftBuffer # <<>>
    /\ \E numSamples \in 1..MaxBlock, numChannels \in {lastOp.numChannels} :
          /\ lastOp.processed + numSamples
                 <= (IF myNormalDelay.sampleRate = LowSampleRate
                     THEN MaxRangeSamples ELSE MaxRampSamples)
          /\ LET buffer == DelayInput(numChannels, numSamples, lastOp.processed)
             IN  \/ NormalDelayApply(buffer, numSamples, numChannels)
                 \/ PingPongDelayApply(buffer, numSamples, numChannels)

\* the control thread changes the delay parameters
SetRangeParameters ==
    /\ \E p \in RangeParams : p # params /\ params' = p
    /\ lastOp' = [lastOp EXCEPT !.op = "setParameters", !.history = <<>>]
    /\ UNCHANGED <<voiceVars, outputBuffer, delayVars>>

InitRange ==
    /\ params \in RangeParams
    /\ playing = FALSE
    /\ ending = FALSE
    /\ currentlyPlayingNote = NoNote
    /\ osc1 = OscNew
    /\ osc2 = OscNew
    /\ noiseGen \in {NoiseNew(seed) : seed \in RandomSeeds}
    /\ lfo = LfoNew
    /\ filter = FilterNew
    /\ amp = AmpNew
    /\ outputBuffer = <<>>
    /\ myNormalDelay = MyDelayNew
    /\ myPingPongDelay = MyPingPongDelayNew
    /\ myReverb = MyReverbNew
    /\ lastOp = DelayOpNone

NextRange ==
    \/ RangePrepareToPlay
    \/ RangeProcessBlock
    \/ SetRangeParameters

SpecRange == InitRange /\ [][NextRange]_vars

-----------------------------------------------------------------------------
(* The routing queries of one rendered sample, read by read, while the      *)
(* control thread writes the LFO parameters.  Each read of a parameter is   *)
(* atomic; nothing joins the reads of one sample.                           *)

\* the queries renderNextBlock makes for one sample, call by call:
\* osc1.updateParams, osc2.updateParams, filter.apply, amp.apply.  The order
\* in which the two arguments of one call are evaluated is the compiler's.
RenderCalls ==
    <<{"osc1Frequency", "osc1Cents"}, {"osc2Frequency", "osc2Cents"},
      {"filterFrequency", "filterQ"}, {"ampVolume", "ampDistortion"}>>

AllQueries == UNION {RenderCalls[c] : c \in 1..Len(RenderCalls)}

\* the queries made through appliesTo (index1, index2), which reads
\* lfoAppliesTo first and lfoOn second; the others go through
\* appliesTo (index), which reads lfoOn first and lfoAppliesTo only when the
\* LFO is on
TwoIndexQueries == {"osc1Frequency", "osc1Cents", "osc2Frequency", "osc2Cents"}

RoutingParams ==
    {[BaseParams EXCEPT !.lfoOn = on, !.lfoAppliesTo = appliesTo] :
        on \in BOOLEAN, appliesTo \in 0..9}

\* lastOp of the render thread within a sample: the queries answered so far
\* and their answers, the query whose first read is done ("none" between
\* queries) and the value that read returned
RoutingOpNone ==
    [op |-> "none", asked |-> {}, routing |-> NoRouting, query |-> "none",
     heldOn |-> FALSE, heldSelector |-> 0]

\* the queries the render thread may make next: those of the first call that
\* has queries left, and those of the first call of the next sample when
\* none is left
NextQueries ==
    IF lastOp.asked = AllQueries THEN RenderCalls[1]
    ELSE LET c == CHOOSE i \in 1..Len(RenderCalls) :
                      /\ RenderCalls[i] \ lastOp.asked # {}
                      /\ \A j \in 1..(i - 1) : RenderCalls[j] \subseteq lastOp.asked
         IN  RenderCalls[c] \ lastOp.asked

\* the first parameter read of a query
RoutingFirstRead ==
    /\ lastOp.query = "none"
    /\ \E q \in NextQueries :
          LET sample == IF lastOp.asked = AllQueries THEN RoutingOpNone ELSE lastOp
          IN  lastOp' =
                  IF q \in TwoIndexQueries
                  THEN [sample EXCEPT !.op = "read", !.query = q,
                                      !.heldSelector = params.lfoAppliesTo]
                  ELSE IF params.lfoOn
                  THEN [sample EXCEPT !.op = "read", !.query = q, !.heldOn = TRUE]
                  ELSE [sample EXCEPT !.op = "query", !.routing[q] = FALSE,
                                      !.asked = @ \cup {q}]
    /\ UNCHANGED <<params, voiceVars, outputBuffer, delayVars>>

\* the second parameter read of a query, and its answer
RoutingSecondRead ==
    /\ lastOp.query # "none"
    /\ LET q == lastOp.query
           view == IF q \in TwoIndexQueries
                   THEN [params EXCEPT !.lfoAppliesTo = lastOp.heldSelector]
                   ELSE [params EXCEPT !.lfoOn = lastOp.heldOn]
       IN  lastOp' = [lastOp EXCEPT !.op = "query", !.routing[q] = LfoRouting(view)[q],
                                    !.asked = @ \cup {q}, !.query = "none"]
    /\ UNCHANGED <<params, voiceVars, outputBuffer, delayVars>>

\* the control thread writes lfoOn or lfoAppliesTo
SetRoutingParameter ==
    /\ \/ \E on \in BOOLEAN : params' = [params EXCEPT !.lfoOn = on]
       \/ \E appliesTo \in 0..9 : params' = [params EXCEPT !.lfoAppliesTo = appliesTo]
    /\ params' # params
    /\ UNCHANGED <<voiceVars, outputBuffer, delayVars, lastOp>>

InitRouting ==
    /\ params \in RoutingParams
    /\ playing = FALSE
    /\ ending = FALSE
    /\ currentlyPlayingNote = NoNote
    /\ osc1 = OscNew
    /\ osc2 = OscNew
    /\ noiseGen \in {NoiseNew(seed) : seed \in RandomSeeds}
    /\ lfo = LfoNew
    /\ filter = FilterNew
    /\ amp = AmpNew
    /\ outputBuffer = <<>>
    /\ myNormalDelay = MyDelayNew
    /\ myPingPongDelay = MyPingPongDelayNew
    /\ myReverb = MyReverbNew
    /\ lastOp = RoutingOpNone

NextRouting ==
    \/ RoutingFirstRead
    \/ RoutingSecondRead
    \/ SetRoutingParameter

SpecRouting == InitRouting /\ [][NextRouting]_vars

-----------------------------------------------------------------------------
(* Properties *)

\* the three documented voice states
Idle == ~ playing /\ currentlyPlayingNote = NoNote
Active == playing /\ ~ ending
Releasing == playing /\ ending

\* a step of renderNextBlock, of stopNote (allowTailOff) and of startNote
RenderStep == lastOp'.op = "renderNextBlock" /\ params' = params
StopStep(allowTailOff) ==
    lastOp'.op = "stopNote" /\ lastOp'.allowTailOff = allowTailOff /\ params' = params
StartStep == lastOp'.op = "startNote" /\ params' = params

\* the buffer after amped[1..] was added to every channel from startSample on
BufferPlus(buffer, startSample, amped) ==
    [chan \in 1..Len(buffer) |->
        [i \in 1..Len(buffer[chan]) |->
            buffer[chan][i]
              + (IF i - 1 >= startSample /\ i - 1 < startSample + Len(amped)
                 THEN amped[i - startSample] ELSE 0)]]

\* C1: stopNote without tail-off leaves the voice not playing with its note
\* cleared, and until the next startNote the voice stays so and every
\* renderNextBlock leaves the buffer it is given as it was
C1_HardStopSilencesVoice ==
    /\ [](lastOp.op = "stopNote" /\ ~ lastOp.allowTailOff
            => /\ ~ playing
               /\ currentlyPlayingNote = NoNote
               /\ lastOp.calls[Len(lastOp.calls)] = "clearCurrentNote")
    /\ [][(~ playing /\ ~ StartStep)
            => /\ ~ playing'
               /\ RenderStep => (outputBuffer' = lastOp'.buffer /\ lastOp'.amped = <<>>)]_vars

\* a hard-stopped voice (its envelope was still open) was asked to render
C1_Witness ==
    /\ lastOp.op = "renderNextBlock"
    /\ ~ playing
    /\ currentlyPlayingNote = NoNote
    /\ amp.envVal > 0
    /\ lastOp.amped = <<>>
    /\ outputBuffer = lastOp.buffer

\* C2: when the envelope of a releasing voice closes at a sample of a block,
\* the voice is idle, renders none of the remaining samples of the block and
\* adds exactly zero for them
C2_ClosedVoiceStopsRendering ==
    (lastOp.op = "renderNextBlock" /\ lastOp.closedAt > 0)
        => /\ ~ playing /\ ~ ending /\ currentlyPlayingNote = NoNote
           /\ Len(lastOp.amped) = lastOp.closedAt
           /\ \A i \in 1..Len(lastOp.amped) : i > lastOp.closedAt => lastOp.amped[i] = 0

\* C3: a releasing voice whose renderNextBlock keeps being called becomes
\* idle, unless a new note starts it again
C3_ReleaseTailEnds == Releasing ~> (Idle \/ Active)

\* a releasing voice rendered a whole block and its envelope, in release
\* at a positive rate, is still at 1
C3_Witness ==
    /\ lastOp.op = "renderNextBlock"
    /\ Releasing
    /\ Len(lastOp.amped) = MaxBlock
    /\ amp.ampEnv.state = "release"
    /\ amp.ampEnv.releaseRate > 0
    /\ amp.envVal = EnvOne

\* C4: after startNote, whatever the state before, the voice is active and
\* startNote has been forwarded once to osc1, osc2, the noise generator, the
\* filter and the amp
C4_StartNoteActivatesAndForwards ==
    lastOp.op = "startNote"
        => /\ Active
           /\ currentlyPlayingNote = lastOp.midiNoteNumber
           /\ lastOp.calls = <<"osc1.startNote", "osc2.startNote", "noiseGen.startNote",
                               "filter.startNote", "amp.startNote">>
           /\ noiseGen.noiseEnv.state # "idle" /\ noiseGen.noiseFilter.v1 = 0
           /\ amp.velocityGain = lastOp.velocity
           /\ amp.ampEnv.state \in {"attack", "decay", "sustain"}

\* a voice that had rendered a note before was started again
C4_Witness ==
    /\ lastOp.op = "startNote"
    /\ amp.envVal > 0
    /\ lfo.phase > 0
    /\ Active

\* C5: stopNote with tail-off on an active voice makes it releasing, forwards
\* stopNote to the noise generator, the filter and the amp and does not clear
\* the note; a releasing voice adds a rendered sample for every sample up to
\* the one at which the amp envelope closes, and stays playing until then
C5_TailOffKeepsRendering ==
    /\ [][(Active /\ StopStep(TRUE))
            => /\ Releasing'
               /\ currentlyPlayingNote' = currentlyPlayingNote
               /\ lastOp'.calls = <<"noiseGen.stopNote", "filter.stopNote", "amp.stopNote">>
               /\ noiseGen' = NoiseStopNote(noiseGen)
               /\ filter' = FilterStopNote(filter)
               /\ amp' = AmpStopNote(amp)]_vars
    /\ [][(Releasing /\ RenderStep)
            => LET last == IF lastOp'.closedAt > 0 THEN lastOp'.closedAt
                           ELSE lastOp'.numSamples
               IN  /\ Len(lastOp'.amped) >= last
                   /\ outputBuffer' = BufferPlus(lastOp'.buffer, lastOp'.startSample,
                                                 lastOp'.amped)
                   /\ Releasing' <=> (lastOp'.closedAt = 0)
                   /\ Releasing' => ~ AmpIsClosed(amp')
                   /\ lastOp'.closedAt > 0 => Idle']_vars

\* a releasing voice rendered a whole block with a sounding sample and is
\* still releasing
C5_Witness ==
    /\ lastOp.op = "renderNextBlock"
    /\ Releasing
    /\ Len(lastOp.amped) = MaxBlock
    /\ lastOp.amped[MaxBlock] # 0

\* C6: renderNextBlock on a voice that is not playing leaves the buffer and
\* every sub-component as they were
C6_IdleRenderIsNoOp ==
    [][(~ playing /\ RenderStep)
         => /\ outputBuffer' = lastOp'.buffer
            /\ lastOp'.amped = <<>>
            /\ UNCHANGED <<voiceVars>>]_vars

\* an idle voice that rendered notes before was handed a sounding buffer
C6_Witness ==
    /\ lastOp.op = "renderNextBlock"
    /\ ~ playing /\ ~ ending
    /\ lastOp.amped = <<>>
    /\ lfo.phase > 0
    /\ Len(lastOp.buffer) = 2
    /\ lastOp.buffer[2][1] # 0

\* C7: every sample a playing voice renders is added to what every channel
\* of the buffer held at that sample index
C7_SampleAddedToEveryChannel ==
    lastOp.op = "renderNextBlock"
        => outputBuffer = BufferPlus(lastOp.buffer, lastOp.startSample, lastOp.amped)

\* a sounding sample was added to a two-channel buffer that already held sound
C7_Witness ==
    /\ lastOp.op = "renderNextBlock"
    /\ Len(lastOp.buffer) = 2
    /\ lastOp.buffer[1][MaxBlock] # 0
    /\ Len(lastOp.amped) = 1
    /\ lastOp.startSample = MaxBlock - 1
    /\ lastOp.amped[1] # 0
    /\ outputBuffer[1][MaxBlock] # outputBuffer[2][MaxBlock]

\* C8: each routing query is true exactly when the LFO is on and the
\* selector is in the index set of the query
C8_RoutingQueries ==
    lastOp.op = "lfo"
        => LET on(indices) == params.lfoOn /\ params.lfoAppliesTo \in indices
           IN  lastOp.routing =
                   [osc1Frequency |-> on({0, 4}), osc1Cents |-> on({1, 5}),
                    osc2Frequency |-> on({2, 4}), osc2Cents |-> on({3, 5}),
                    filterFrequency |-> on({6}), filterQ |-> on({7}),
                    ampVolume |-> on({8}), ampDistortion |-> on({9})]

\* the queries were asked with the LFO on and the selector on both cents
C8_Witness ==
    /\ lastOp.op = "lfo"
    /\ params.lfoOn
    /\ params.lfoAppliesTo = 5
    /\ lastOp.routing.osc2Cents

\* the routing queries that returned true
RoutedTo(routing) == {d \in DOMAIN routing : routing[d]}

\* C9 as stated: at most one routing query returns true
C9_AtMostOneQueryTrue ==
    lastOp.op = "lfo" => Cardinality(RoutedTo(lastOp.routing)) <= 1

\* C9 amended: at most one routing query returns true, except that selector 4
\* makes exactly the two oscillator frequency queries true and selector 5
\* exactly the two oscillator cents queries
C9_OneDestinationOrOscillatorPair ==
    lastOp.op = "lfo"
        => \/ Cardinality(RoutedTo(lastOp.routing)) <= 1
           \/ /\ params.lfoOn /\ params.lfoAppliesTo = 4
              /\ RoutedTo(lastOp.routing) = {"osc1Frequency", "osc2Frequency"}
           \/ /\ params.lfoOn /\ params.lfoAppliesTo = 5
              /\ RoutedTo(lastOp.routing) = {"osc1Cents", "osc2Cents"}

\* the queries were asked with the LFO on and the selector on both frequencies
C9_Witness ==
    /\ lastOp.op = "lfo"
    /\ params.lfoOn
    /\ params.lfoAppliesTo = 4
    /\ Cardinality(RoutedTo(lastOp.routing)) = 2

\* C10: the stored LFO phase is at least 0 and below 1
C10_PhaseBelowOne == 0 <= lfo.phase /\ lfo.phase < PhaseOne

\* C11: a call of MyNoiseGenerator::getNextSample while noiseOn is false
\* returns 0 and leaves the random generator, the low-pass filter state and
\* the envelope as they were, however many such calls follow one another
C11_DisabledNoiseIsInert ==
    [][(lastOp'.op = "noiseGen.getNextSample" /\ ~ params.noiseOn /\ params' = params)
          => /\ lastOp'.sample = 0
             /\ noiseGen' = noiseGen]_vars

\* a disabled call on a generator whose envelope is running and whose
\* filter holds a value left by earlier enabled calls
C11_Witness ==
    /\ lastOp.op = "noiseGen.getNextSample"
    /\ ~ params.noiseOn
    /\ lastOp.sample = 0
    /\ noiseGen.noiseEnv.state \in {"attack", "decay", "release"}
    /\ noiseGen.noiseFilter.v1 # 0

\* C12: when the LFO is routed to it, the effective volume of MyAmp is
\* ampVolume * (1 + lfoSample) clamped to [0, 1] and the effective distortion
\* gain is max(0, ampDistGain * (1 + lfoSample)); the volume lies in [0, 1]
\* and the gain is >= 0 for every lfoSample; when the LFO is not routed, each
\* equals its raw parameter
C12_EffectiveVolumeAndGain ==
    lastOp.op = "amp.apply" =>
        LET rawVolume == params.ampVolume * (LfoOne + lastOp.lfoSample)
            rawGain == params.ampDistGain * (LfoOne + lastOp.lfoSample)
        IN  /\ lastOp.applyLfoToAmpVolume =>
                  /\ lastOp.volume = Max(0, Min(VolOne * LfoOne, rawVolume))
                  /\ 0 <= lastOp.volume
                  /\ lastOp.volume <= VolOne * LfoOne
            /\ lastOp.applyLfoToAmpDist =>
                  /\ lastOp.dist = Max(0, rawGain)
                  /\ 0 <= lastOp.dist
            /\ ~ lastOp.applyLfoToAmpVolume => lastOp.volume = params.ampVolume * LfoOne
            /\ ~ lastOp.applyLfoToAmpDist => lastOp.dist = params.ampDistGain * LfoOne

\* an LFO sample above 1 routed to a full volume: the product is clamped to 1
C12_Witness ==
    /\ lastOp.op = "amp.apply"
    /\ lastOp.applyLfoToAmpVolume
    /\ lastOp.applyLfoToAmpDist
    /\ lastOp.lfoSample > LfoOne
    /\ params.ampVolume = VolOne
    /\ lastOp.volume = VolOne * LfoOne

\* C13: with ampDistOn false, MyAmp::apply returns
\* effectiveVolume * velocityGain * envelopeValue * sample; every apply
\* advances the envelope by exactly one sample; velocityGain is the velocity
\* of the most recent startNote: startNote stores it, and stopNote, apply and
\* updateParams leave it as it was
C13_UndistortedApply ==
    [][/\ lastOp'.op = "amp.apply" =>
            /\ amp'.ampEnv = ADSRGetNextSample(amp.ampEnv)
            /\ amp'.envVal = amp'.ampEnv.envelopeVal
            /\ (~ params.ampDistOn /\ params' = params) =>
                  lastOp'.out = lastOp'.volume * amp.velocityGain * amp'.envVal
                                * lastOp'.sample * LfoOne
       /\ lastOp'.op = "amp.startNote" => amp'.velocityGain = lastOp'.velocity
       /\ lastOp'.op \in {"amp.stopNote", "amp.apply", "amp.updateParams"} =>
            amp'.velocityGain = amp.velocityGain]_vars

\* an undistorted apply of a released note that returns a nonzero sample,
\* scaled by the velocity its startNote stored
C13_Witness ==
    /\ lastOp.op = "amp.apply"
    /\ ~ params.ampDistOn
    /\ lastOp.phase = "stopped"
    /\ lastOp.out # 0
    /\ amp.velocityGain = VelOne \div 2

\* the release time of the envelope in samples, rounded up
AmpReleaseSamples ==
    (amp.ampEnv.release * amp.ampEnv.sampleRate + TimeOne - 1) \div TimeOne

\* C14: isClosed() is true right after construction; it is false after
\* startNote and several apply calls when the sustain level is above 0; it is
\* true again after stopNote once apply was called for the release time
C14_IsClosedLifecycle ==
    /\ lastOp.op = "none" => AmpIsClosed(amp)
    /\ (/\ lastOp.phase = "started"
        /\ lastOp.sinceStart >= SeveralApplies
        /\ params.ampEnvSustain > 0) => ~ AmpIsClosed(amp)
    /\ (/\ lastOp.phase = "stopped"
        /\ lastOp.sinceStop >= Max(1, AmpReleaseSamples)) => AmpIsClosed(amp)

\* a stopped note whose release time has elapsed in apply calls
C14_Witness ==
    /\ lastOp.op = "amp.apply"
    /\ lastOp.phase = "stopped"
    /\ lastOp.sinceStop >= Max(1, AmpReleaseSamples)
    /\ lastOp.updatedSinceStop

\* a call of the delay stage on a prepared object
DelayApplied == lastOp.op = "processBlock" /\ lastOp.prepared

\* every sample of a delay line is 0
Silent(lineBuffer) == \A j \in 1..Len(lineBuffer) : lineBuffer[j] = 0

\* C15: with feedback 0, wet level 1, dry level 0 and a settled delay of a
\* whole number D of samples, once D samples were processed since the line
\* was cleared the output of MyDelay::apply at sample time t is the input at
\* time t - D
C15_DelayRoundTrip ==
    (/\ DelayApplied
     /\ lastOp.type = 0
     /\ lastOp.delayOn
     /\ params.delayFeedback = 0
     /\ params.delayWetLevel = GainOne
     /\ params.delayDryLevel = 0
     /\ DelayTimeInSamples(params, SampleRate) % FracOne = 0
     /\ myNormalDelay.smoothDelaySamples.countdown = 0)
    => LET D == DelayTimeInSamples(params, SampleRate) \div FracOne
           first == Len(lastOp.history) - lastOp.numSamples
       IN  \A i \in 1..lastOp.numSamples :
               first + i - D >= 1 => outputBuffer[1][i] = lastOp.history[first + i - D]

\* an echo-only call of MyDelay with more than D samples behind it
C15_Witness ==
    /\ DelayApplied
    /\ lastOp.type = 0
    /\ lastOp.delayOn
    /\ params.delayFeedback = 0
    /\ params.delayWetLevel = GainOne
    /\ params.delayDryLevel = 0
    /\ Len(lastOp.history) > DelayTimeInSamples(params, SampleRate) \div FracOne

\* C16: for one prepared delay object, the first apply with delayOn false
\* after an apply with delayOn true clears every sample of both lines and
\* sets the write index to 0; a further apply with delayOn false clears
\* nothing; the first apply with delayOn true after one with delayOn false
\* clears nothing (the write index goes on from where it was)
C16_ClearedOnceWhenSwitchedOff ==
    [][(lastOp'.op = "processBlock" /\ lastOp'.prepared /\ params' = params) =>
          LET type == lastOp'.type
              previous == lastOp.lastApply[type + 1]
              n == lastOp'.numSamples
          IN  /\ (~ params.delayOn /\ previous = "on") =>
                    /\ lastOp'.cleared
                    /\ type = 0 => /\ Silent(myNormalDelay'.leftBuffer)
                                   /\ Silent(myNormalDelay'.rightBuffer)
                                   /\ myNormalDelay'.currentIndex = 0
                    /\ type = 1 => /\ Silent(myPingPongDelay'.leftDelayBuffer)
                                   /\ Silent(myPingPongDelay'.rightDelayBuffer)
                                   /\ myPingPongDelay'.currentIndex = 0
              /\ (~ params.delayOn /\ previous = "off") =>
                    /\ ~ lastOp'.cleared
                    /\ delayVars' = delayVars
              /\ (params.delayOn /\ previous = "off") =>
                    /\ ~ lastOp'.cleared
                    /\ type = 0 => myNormalDelay'.currentIndex =
                          (myNormalDelay.currentIndex + n) % myNormalDelay.bufferSize
                    /\ type = 1 => myPingPongDelay'.currentIndex =
                          (myPingPongDelay.currentIndex + n) % myPingPongDelay.bufferSize]_vars

\* MyDelay switched off after an on-state call: the call cleared the lines
C16_Witness ==
    /\ DelayApplied
    /\ lastOp.type = 0
    /\ ~ lastOp.delayOn
    /\ lastOp.cleared
    /\ myNormalDelay.currentIndex = 0

\* C17: while delayOn is false, apply of either delay leaves every sample of
\* every channel of the audio buffer as it was
C17_BypassLeavesBuffer ==
    (DelayApplied /\ ~ lastOp.delayOn) => outputBuffer = lastOp.buffer

\* a bypassed call of MyDelay on a stereo buffer that holds sound, made on
\* lines that held sound
C17_Witness ==
    /\ DelayApplied
    /\ lastOp.type = 0
    /\ ~ lastOp.delayOn
    /\ lastOp.cleared
    /\ lastOp.numChannels = 2
    /\ lastOp.buffer[1][1] # 0
    /\ outputBuffer = lastOp.buffer

\* C18: apply on a delay that prepareToPlay never ran on passes the buffer
\* through unchanged and neither reads nor writes the unallocated lines,
\* whatever delayOn
C18_UnpreparedApplyIsGuarded ==
    (lastOp.op = "processBlock" /\ ~ lastOp.prepared) =>
        /\ lastOp.outcome = "ok"
        /\ ~ lastOp.nullAccess
        /\ outputBuffer = lastOp.buffer

\* a call of the delay stage before prepareToPlay, with delayOn set
C18_Witness ==
    /\ lastOp.op = "processBlock"
    /\ ~ lastOp.prepared
    /\ lastOp.delayOn

\* C19: the delay time is above 0 whenever MyPingPongDelay::updateParams
\* divides by it, so 1 / (2 * delayTime) is never a division by zero
C19_DelayTimeAboveZero ==
    (DelayApplied /\ lastOp.type = 1 /\ lastOp.delayOn) =>
        /\ params.delayTime > 0
        /\ myPingPongDelay.smoothFrequency.target # FloatInfinity

\* an on-state call of the ping-pong delay: updateParams ran for each sample
C19_Witness ==
    /\ DelayApplied
    /\ lastOp.type = 1
    /\ lastOp.delayOn
    /\ myPingPongDelay.smoothFrequency.target # 0

\* C20: given more than two channels, either delay processes channels 0 and
\* 1 only: the further channels are left as they were, and the object and
\* the first two channels end as in the call with the same two channels alone
C20_FurtherChannelsUntouched ==
    [][(lastOp'.op = "processBlock" /\ lastOp'.prepared /\ params' = params
        /\ lastOp'.numChannels > 2) =>
          LET buffer == lastOp'.buffer
              n == lastOp'.numSamples
          IN  /\ \A c \in 3..lastOp'.numChannels : outputBuffer'[c] = buffer[c]
              /\ lastOp'.type = 0 =>
                    LET r == MyDelayApply(myNormalDelay, params, SubSeq(buffer, 1, 2), n, 2)
                    IN  /\ myNormalDelay' = r.delay
                        /\ SubSeq(outputBuffer', 1, 2) = r.buffer
              /\ lastOp'.type = 1 =>
                    LET r == PingPongApply(myPingPongDelay, params, SubSeq(buffer, 1, 2),
                                           n, 2)
                    IN  /\ myPingPongDelay' = r.delay
                        /\ SubSeq(outputBuffer', 1, 2) = r.buffer]_vars

\* an on-state call of MyDelay on three channels that changed the first two
C20_Witness ==
    /\ DelayApplied
    /\ lastOp.type = 0
    /\ lastOp.delayOn
    /\ lastOp.numChannels = 3
    /\ outputBuffer[1] # lastOp.buffer[1]
    /\ outputBuffer[3] = lastOp.buffer[3]


\* C21: every processBlock that returns calls, in this order, the
\* synthesiser's renderNextBlock, the apply of exactly one delay (MyDelay
\* when delayType is 0, MyPingPongDelay otherwise) and the reverb's apply;
\* the delay that is not selected is left as it was
C21_OneDelayThenReverb ==
    [][(lastOp'.op = "processBlock" /\ lastOp'.outcome = "ok")
          => /\ lastOp'.calls =
                    <<"mySynth.renderNextBlock",
                      IF params.delayType = 0 THEN "myNormalDelay.apply"
                      ELSE "myPingPongDelay.apply",
                      "myReverb.apply">>
             /\ params.delayType = 0 => myPingPongDelay' = myPingPongDelay
             /\ params.delayType # 0 => myNormalDelay' = myNormalDelay
             /\ (lastOp'.prepared /\ params.delayType = 0) =>
                   LET r == MyDelayApply(myNormalDelay, params, lastOp'.buffer,
                                         lastOp'.numSamples, lastOp'.numChannels)
                   IN  myNormalDelay' = r.delay /\ outputBuffer' = r.buffer
             /\ (lastOp'.prepared /\ params.delayType # 0) =>
                   LET r == PingPongApply(myPingPongDelay, params, lastOp'.buffer,
                                          lastOp'.numSamples, lastOp'.numChannels)
                   IN  myPingPongDelay' = r.delay /\ outputBuffer' = r.buffer
             /\ myReverb' = MyReverbApply(myReverb, params)]_vars

\* a block went through MyDelay in the on state while the ping-pong delay
\* still held audio of an earlier block, and the reverb was called after it
C21_Witness ==
    /\ lastOp.op = "processBlock"
    /\ lastOp.type = 0
    /\ lastOp.delayOn
    /\ lastOp.prepared
    /\ lastOp.calls = <<"mySynth.renderNextBlock", "myNormalDelay.apply", "myReverb.apply">>
    /\ myReverb.isReset
    /\ ~ Silent(myNormalDelay.leftBuffer)
    /\ ~ Silent(myPingPongDelay.leftDelayBuffer)

\* a prepared ping-pong delay processed a block of two or more channels in
\* the on state with the depth at 1/2
CentredPingPong ==
    /\ DelayApplied
    /\ lastOp.type = 1
    /\ lastOp.delayOn
    /\ lastOp.numChannels >= 2
    /\ params.delayDepth = GainOne \div 2

\* C22 as stated: with delayDepth = 0.5 and two channels the ping-pong delay
\* puts out the same sample on the left and on the right at every index
C22_IdenticalOutputs ==
    CentredPingPong
        => \A i \in 1..lastOp.numSamples : outputBuffer[1][i] = outputBuffer[2][i]

\* C22 amended: with delayDepth = 0.5 and two channels the delayed part of
\* the two outputs is the same, so that at every index the outputs differ by
\* dryLevel * (left input - right input)
C22_OutputsDifferByDrySignal ==
    CentredPingPong
        => \A i \in 1..lastOp.numSamples :
              (outputBuffer[1][i] - outputBuffer[2][i]) * GainOne
                  = params.delayDryLevel * (lastOp.buffer[1][i] - lastOp.buffer[2][i])

\* at depth 1/2 an echo is heard on both channels, and the two outputs differ
C22_Witness ==
    /\ CentredPingPong
    /\ params.delayDryLevel > 0
    /\ outputBuffer[1][lastOp.numSamples] * GainOne
           > params.delayDryLevel * lastOp.buffer[1][lastOp.numSamples]
    /\ outputBuffer[2][lastOp.numSamples] * GainOne
           > params.delayDryLevel * lastOp.buffer[2][lastOp.numSamples]
    /\ outputBuffer[1][lastOp.numSamples] # outputBuffer[2][lastOp.numSamples]

\* C23: an on-state MyDelay::apply advances the write index by one (mod
\* capacity) per processed sample, with one channel or two; both lines are
\* written at the same indices, each with original + feedback * delayed of
\* its own channel, and nowhere else; the left output and line are what the
\* left channel alone would give, and the right ones what the right channel
\* alone would give
C23_IndexAndChannelIndependence ==
    [][(/\ lastOp'.op = "processBlock" /\ lastOp'.prepared
        /\ lastOp'.type = 0 /\ lastOp'.delayOn)
          => LET d == myNormalDelay
                 n == lastOp'.numSamples
                 input == lastOp'.buffer
                 stereo == lastOp'.numChannels > 1
                 delaySamples ==
                     SmoothedGetNextValue(
                         MyDelayUpdateParams(d, params).smoothDelaySamples).currentValue
                 writtenAt == {CppMod(d.currentIndex + k, d.bufferSize) + 1 : k \in 0..(n - 1)}
                 firstWritten(line, channel) ==
                     channel[1]
                     + (params.delayFeedback
                        * InterpolatedRead(line, d.currentIndex, d.bufferSize,
                                           delaySamples).sample) \div GainOne
                 leftAlone == MyDelayApply(d, params, <<input[1]>>, n, 1)
                 rightAlone == MyDelayApply([d EXCEPT !.leftBuffer = d.rightBuffer],
                                            params, <<input[2]>>, n, 1)
             IN  /\ myNormalDelay'.currentIndex = (d.currentIndex + n) % d.bufferSize
                 /\ myNormalDelay'.bufferSize = d.bufferSize
                 /\ myNormalDelay'.leftBuffer = leftAlone.delay.leftBuffer
                 /\ outputBuffer'[1] = leftAlone.buffer[1]
                 /\ myNormalDelay'.leftBuffer[d.currentIndex + 1]
                        = firstWritten(d.leftBuffer, input[1])
                 /\ \A j \in (1..d.bufferSize) \ writtenAt :
                        /\ myNormalDelay'.leftBuffer[j] = d.leftBuffer[j]
                        /\ myNormalDelay'.rightBuffer[j] = d.rightBuffer[j]
                 /\ stereo =>
                        /\ myNormalDelay'.rightBuffer = rightAlone.delay.leftBuffer
                        /\ outputBuffer'[2] = rightAlone.buffer[1]
                        /\ myNormalDelay'.rightBuffer[d.currentIndex + 1]
                               = firstWritten(d.rightBuffer, input[2])
                 /\ ~ stereo => myNormalDelay'.rightBuffer = d.rightBuffer]_vars

\* a two-channel block with feedback during which the write index wrapped:
\* the last sample written into each line holds more than the input of its
\* channel, and the lines differ
C23_Witness ==
    /\ DelayApplied
    /\ lastOp.type = 0
    /\ lastOp.delayOn
    /\ lastOp.numChannels = 2
    /\ lastOp.numSamples = 2
    /\ params.delayFeedback > 0
    /\ myNormalDelay.currentIndex = 1
    /\ myNormalDelay.leftBuffer[myNormalDelay.currentIndex]
           > lastOp.buffer[1][lastOp.numSamples]
    /\ myNormalDelay.rightBuffer[myNormalDelay.currentIndex]
           > lastOp.buffer[2][lastOp.numSamples]
    /\ myNormalDelay.leftBuffer # myNormalDelay.rightBuffer

\* values of the four noise parameters over their declared ranges
AnyNoiseParams ==
    {[BaseParams EXCEPT !.noiseOn = on, !.noiseGain = gain, !.noiseFilter = cutoff,
                        !.noiseDuration = duration] :
        on \in BOOLEAN, gain \in 0..1, cutoff \in 0..2,
        duration \in {0, TimeOne \div 4, TimeOne, 100 * TimeOne}}

\* attack and release of the noise envelope are 10 ms, in the parameters the
\* generator keeps and, after updateParams, in the envelope; the decay
\* updateParams sets is noiseDuration, and 10000 s when noiseDuration is at
\* its maximum of 100 s
NoiseAttackReleaseDecay ==
    /\ noiseGen'.noiseEnvParams.attack = TimeOne \div 100
    /\ noiseGen'.noiseEnvParams.release = TimeOne \div 100
    /\ (lastOp'.op = "noiseGen.updateParams" /\ params' = params) =>
          /\ noiseGen'.noiseEnvParams.decay =
                 (IF params.noiseDuration = 100 * TimeOne
                  THEN 10000 * TimeOne ELSE params.noiseDuration)
          /\ noiseGen'.noiseEnv.attack = TimeOne \div 100
          /\ noiseGen'.noiseEnv.release = TimeOne \div 100
          /\ noiseGen'.noiseEnv.decay = noiseGen'.noiseEnvParams.decay
          /\ noiseGen'.noiseEnv.sustain = noiseGen'.noiseEnvParams.sustain

\* C24 as stated: attack and release of the noise envelope are fixed at
\* 10 ms; updateParams recomputes decay and sustain from the current
\* parameters (other parameter values would give another sustain level);
\* decay is noiseDuration, or 10000 when noiseDuration is 100
C24_DecayAndSustainFollowParameters ==
    [][/\ NoiseAttackReleaseDecay
       /\ (lastOp'.op = "noiseGen.updateParams" /\ params' = params) =>
             \E p \in AnyNoiseParams :
                 NoiseUpdateParams(noiseGen, p, SampleRate).noiseEnvParams.sustain
                     # noiseGen'.noiseEnvParams.sustain]_vars

\* C24 amended: attack and release of the noise envelope are fixed at 10 ms
\* and its sustain level at 0, whatever the parameters; updateParams
\* recomputes the decay alone: decay is noiseDuration, or 10000 when
\* noiseDuration is 100
C24_OnlyDecayFollowsParameters ==
    [][/\ NoiseAttackReleaseDecay
       /\ noiseGen'.noiseEnvParams.sustain = 0
       /\ (lastOp'.op = "noiseGen.updateParams" /\ params' = params) =>
             \A p \in AnyNoiseParams :
                 NoiseUpdateParams(noiseGen, p, SampleRate).noiseEnvParams.sustain = 0
       /\ lastOp'.op # "noiseGen.updateParams" =>
             noiseGen'.noiseEnvParams = noiseGen.noiseEnvParams]_vars

\* updateParams found noiseDuration at its maximum while the envelope of a
\* started note was running: the decay time is 10000 s and the sustain level 0
C24_Witness ==
    /\ lastOp.op = "noiseGen.updateParams"
    /\ params.noiseDuration = 100 * TimeOne
    /\ noiseGen.noiseEnv.decay = 10000 * TimeOne
    /\ noiseGen.noiseEnv.sustain = 0
    /\ noiseGen.noiseEnv.state # "idle"
    /\ noiseGen.noiseEnv.envelopeVal > 0

\* C25: while a prepared delay has emptyBuffers set, both of its lines hold
\* zeros only and its write index is 0; an on-state apply leaves the flag
\* clear; the flag becomes set only where clearBuffers ran: in prepareToPlay,
\* or in an off-state apply of that object, which leaves it as clearBuffers
\* does
C25_EmptyFlagMeansSilence ==
    [][/\ (myNormalDelay'.leftBuffer # <<>> /\ myNormalDelay'.emptyBuffers) =>
             /\ Silent(myNormalDelay'.leftBuffer)
             /\ Silent(myNormalDelay'.rightBuffer)
             /\ myNormalDelay'.currentIndex = 0
       /\ (myPingPongDelay'.leftDelayBuffer # <<>> /\ myPingPongDelay'.emptyBuffers) =>
             /\ Silent(myPingPongDelay'.leftDelayBuffer)
             /\ Silent(myPingPongDelay'.rightDelayBuffer)
             /\ myPingPongDelay'.currentIndex = 0
       /\ (lastOp'.op = "processBlock" /\ lastOp'.prepared /\ lastOp'.delayOn) =>
             IF lastOp'.type = 0 THEN ~ myNormalDelay'.emptyBuffers
             ELSE ~ myPingPongDelay'.emptyBuffers
       /\ (~ myNormalDelay.emptyBuffers /\ myNormalDelay'.emptyBuffers) =>
             \/ lastOp'.op = "prepareToPlay"
             \/ /\ lastOp'.op = "processBlock" /\ lastOp'.type = 0
                /\ ~ lastOp'.delayOn /\ lastOp'.cleared
                /\ myNormalDelay' = MyDelayClearBuffers(myNormalDelay)
       /\ (~ myPingPongDelay.emptyBuffers /\ myPingPongDelay'.emptyBuffers) =>
             \/ lastOp'.op = "prepareToPlay"
             \/ /\ lastOp'.op = "processBlock" /\ lastOp'.type = 1
                /\ ~ lastOp'.delayOn /\ lastOp'.cleared
                /\ myPingPongDelay' = PingPongClearBuffers(myPingPongDelay)]_vars

\* an off-state apply has just cleared the ping-pong delay, whose flag is
\* set, while MyDelay still holds audio with its flag clear
C25_Witness ==
    /\ DelayApplied
    /\ lastOp.type = 1
    /\ lastOp.cleared
    /\ myPingPongDelay.emptyBuffers
    /\ Silent(myPingPongDelay.leftDelayBuffer)
    /\ myPingPongDelay.currentIndex = 0
    /\ ~ myNormalDelay.emptyBuffers
    /\ ~ Silent(myNormalDelay.leftBuffer)
    /\ myNormalDelay.currentIndex > 0

\* the smoothed value after k calls of getNextValue
RECURSIVE SmoothedAfter(_, _)
SmoothedAfter(s, k) ==
    IF k = 0 THEN s ELSE SmoothedAfter(SmoothedGetNextValue(s), k - 1)

\* an index into a line of bufferSize samples
WithinCapacity(index, bufferSize) == 0 <= index /\ index < bufferSize

\* both indices of the fractional read of a line at a distance
ReadWithinCapacity(lineBuffer, currentIndex, bufferSize, exactDelayInSamples) ==
    LET read == InterpolatedRead(lineBuffer, currentIndex, bufferSize,
                                 exactDelayInSamples)
    IN  /\ WithinCapacity(read.leftIndex, bufferSize)
        /\ WithinCapacity(read.rightIndex, bufferSize)

C27_FlagPairEncodesState ==
    /\ <<playing, ending>> \in {<<FALSE, FALSE>>, <<TRUE, FALSE>>, <<TRUE, TRUE>>}
    /\ ending => playing

\* stopNote without tail-off has just stopped a releasing voice: playing is
\* clear, the note is cleared, and ending is still set
C27_Witness ==
    /\ lastOp.op = "stopNote"
    /\ ~ lastOp.allowTailOff
    /\ ~ playing
    /\ ending
    /\ currentlyPlayingNote = NoNote

\* C28: the answers the routing queries of one sample have given so far are
\* those of a single value of (lfoOn, lfoAppliesTo), and the destinations
\* that receive the LFO are at most one, or the two oscillators' frequency,
\* or the two oscillators' cents
C28_RoutingConsistentWithinSample ==
    /\ \E p \in RoutingParams :
          \A q \in lastOp.asked : lastOp.routing[q] = LfoRouting(p)[q]
    /\ \/ Cardinality(RoutedTo(lastOp.routing)) <= 1
       \/ RoutedTo(lastOp.routing) = {"osc1Frequency", "osc2Frequency"}
       \/ RoutedTo(lastOp.routing) = {"osc1Cents", "osc2Cents"}

\* the queries of one sample were all answered, and the LFO goes to the
\* frequency of oscillator 1 and to the volume of the amp
C28_Witness ==
    /\ lastOp.asked = AllQueries
    /\ lastOp.routing.osc1Frequency
    /\ lastOp.routing.ampVolume
    /\ RoutedTo(lastOp.routing) = {"osc1Frequency", "ampVolume"}

\* the block before this one, if there was one since prepareToPlay, went
\* through the delay of this type with delayOn set
ProcessedPrecedingBlockOn(type) ==
    /\ lastOp.lastApply # <<"none", "none">>
    /\ lastOp.type = type
    /\ lastOp.delayOn

\* C29: whenever a prepared delay processes a block in the on state without
\* having processed the block before it in the on state (the delay was off
\* or the other delay was selected), both of its lines hold zeros only when
\* that block starts
C29_SilentAfterGap ==
    [][(/\ lastOp'.op = "processBlock"
        /\ lastOp'.prepared
        /\ lastOp'.delayOn
        /\ ~ ProcessedPrecedingBlockOn(lastOp'.type))
          => IF lastOp'.type = 0
             THEN Silent(myNormalDelay.leftBuffer) /\ Silent(myNormalDelay.rightBuffer)
             ELSE /\ Silent(myPingPongDelay.leftDelayBuffer)
                  /\ Silent(myPingPongDelay.rightDelayBuffer)]_vars

\* MyDelay processed the first sample since prepareToPlay, the ping-pong
\* delay the second, and MyDelay the third with the dry level at 0: its line
\* holds the first and the third sample but not the second, and the output
\* of the third is the echo of the first
C29_Witness ==
    /\ lastOp.op = "processBlock"
    /\ lastOp.type = 0
    /\ lastOp.prepared
    /\ lastOp.delayOn
    /\ lastOp.numSamples = 1
    /\ lastOp.processed = 3
    /\ lastOp.lastApply[2] # "none"
    /\ params.delayDryLevel = 0
    /\ \E j \in 1..Len(myNormalDelay.leftBuffer) :
          myNormalDelay.leftBuffer[j] = DelayInput(1, 1, 0)[1][1]
    /\ \E j \in 1..Len(myNormalDelay.leftBuffer) :
          myNormalDelay.leftBuffer[j] = DelayInput(1, 1, 2)[1][1]
    /\ \A j \in 1..Len(myNormalDelay.leftBuffer) :
          myNormalDelay.leftBuffer[j] # DelayInput(1, 1, 1)[1][1]
    /\ outputBuffer[1][1] # 0
====
